---------------------------- MODULE Spec2Model ----------------------------
(***************************************************************************)
(* A21 Carbon Calculator: the manifest parser and sector sequencer         *)
(* (parse_logistics_data), the location resolver with its memoized         *)
(* geocoding calls, the distance step and the emission calculation, as     *)
(* implemented by src/stable/server.py, with the earlier AIR-only server   *)
(* src/server.py modelled beside it (variable impl).                       *)
(*                                                                         *)
(* Text is modelled character by character: a Python str is a sequence of  *)
(* one-character strings.  Distances are in tenths of a kilometre          *)
(* (geodesic(..).kilometers rounded to one decimal), emission factors in   *)
(* thousandths of kg CO2 per tonne-km.                                     *)
(***************************************************************************)
EXTENDS Integers, Sequences, FiniteSets, TLC

VARIABLES
    impl,           \* which server file runs: "stable" or "legacy"
    text,           \* the request text handed to parse_logistics_data
    pc,             \* position inside the request
    lines,          \* text.strip().split('\n')
    li,             \* index of the next physical line of the folding loop
    current_line,   \* the logical record being folded
    cleaned_lines,  \* the folded logical records
    ci,             \* index of the next logical record
    columns,        \* the columns of the record being sequenced
    sectors,        \* the sectors of the record being sequenced
    si,             \* index of the next sector of the distance loop
    from_coords,    \* _distance_between: ca, the coordinates of the 'from' end
    shipments,      \* the shipments parsed so far (the return value)
    skipped,        \* logical records dropped, with the reason
    raised,         \* an exception escaped parse_logistics_data
    query_cache,    \* lru_cache of _geocode_query, least recently used first
    google_cache,   \* lru_cache of _geocode_google, least recently used first
    calls,          \* external provider calls of the process, in order
    resolutions,    \* the calls of _coords_for_location so far, with results
    mapping,        \* normalize_shipment_addresses: location -> substitute
    llm_calls,      \* the calls of call_llm of the request, in order
    threads,        \* concurrent calls of _geocode_query: position and result
    response,       \* what /extract returned
    results,        \* the last /calculate response
    call,           \* a direct call (get_emission_factor, the dashboard): its arguments
    returned        \* and what it returned

vars == <<impl, threads, llm_calls, response, mapping, text, pc, lines, li, current_line, cleaned_lines, ci, columns,
          sectors, si, from_coords, shipments, skipped, raised, query_cache, google_cache,
          calls, resolutions, results, call, returned>>

---------------------------------------------------------------------------
(* Characters and Python's str methods                                     *)

TAB == "\t"
NL == "\n"
CR == "\r"
SP == " "
DQ == "\""

\* the characters str.strip() removes (those of the model's alphabet)
Whitespace == {SP, TAB, NL, CR}

Lowers == <<"a", "b", "c", "d", "e", "f", "g", "h", "i", "j", "k", "l", "m",
            "n", "o", "p", "q", "r", "s", "t", "u", "v", "w", "x", "y", "z">>
Uppers == <<"A", "B", "C", "D", "E", "F", "G", "H", "I", "J", "K", "L", "M",
            "N", "O", "P", "Q", "R", "S", "T", "U", "V", "W", "X", "Y", "Z">>
Digits == {"0", "1", "2", "3", "4", "5", "6", "7", "8", "9"}

LowerSet == {Lowers[i] : i \in 1..26}
UpperSet == {Uppers[i] : i \in 1..26}

IsDigit(c) == c \in Digits
IsLetter(c) == c \in LowerSet \/ c \in UpperSet
IsUpperAZ(c) == c \in UpperSet

UpperChar(c) ==
    IF c \in LowerSet THEN Uppers[CHOOSE i \in 1..26 : Lowers[i] = c] ELSE c
LowerChar(c) ==
    IF c \in UpperSet THEN Lowers[CHOOSE i \in 1..26 : Uppers[i] = c] ELSE c

\* str.upper(), str.lower()
Upper(s) == [i \in 1..Len(s) |-> UpperChar(s[i])]
Lower(s) == [i \in 1..Len(s) |-> LowerChar(s[i])]

SetMin(S) == CHOOSE x \in S : \A y \in S : x <= y
SetMax(S) == CHOOSE x \in S : \A y \in S : x >= y

\* str.strip()
Strip(s) ==
    LET keep == {i \in 1..Len(s) : s[i] \notin Whitespace}
    IN  IF keep = {} THEN <<>> ELSE SubSeq(s, SetMin(keep), SetMax(keep))

\* sub in s
Contains(s, sub) ==
    \E i \in 1..(Len(s) - Len(sub) + 1) : SubSeq(s, i, i + Len(sub) - 1) = sub

\* s.startswith(prefix)
StartsWith(s, prefix) ==
    Len(s) >= Len(prefix) /\ SubSeq(s, 1, Len(prefix)) = prefix

\* str.isalpha(), str.isalnum(): every character, and at least one
IsAlpha(s) == s # <<>> /\ \A i \in 1..Len(s) : IsLetter(s[i])
IsAlnum(s) == s # <<>> /\ \A i \in 1..Len(s) : IsLetter(s[i]) \/ IsDigit(s[i])

\* s.replace(" ", "")
RemoveSpaces(s) == SelectSeq(s, LAMBDA c : c # SP)

\* s.split(d): the pieces between consecutive occurrences of d
SplitOn(s, d) ==
    LET at == {i \in 1..Len(s) : s[i] = d}
        n == Cardinality(at)
        cut(k) == IF k = 0 THEN 0
                  ELSE IF k = n + 1 THEN Len(s) + 1
                  ELSE CHOOSE i \in at : Cardinality({j \in at : j <= i}) = k
    IN  [k \in 1..(n + 1) |-> SubSeq(s, cut(k - 1) + 1, cut(k) - 1)]

\* s.split()[0]: the first whitespace-separated token (s holds one)
FirstToken(s) ==
    LET t == Strip(s)
        ws == {i \in 1..Len(t) : t[i] \in Whitespace}
    IN  IF ws = {} THEN t ELSE SubSeq(t, 1, SetMin(ws) - 1)

\* "d".join(parts)
RECURSIVE Join(_, _)
Join(parts, d) ==
    IF parts = <<>> THEN <<>>
    ELSE IF Len(parts) = 1 THEN parts[1]
    ELSE LET mid == Len(parts) \div 2
         IN  Join(SubSeq(parts, 1, mid), d) \o <<d>>
                 \o Join(SubSeq(parts, mid + 1, Len(parts)), d)

\* None, where the code holds None in place of a str
None == <<"None">>

---------------------------------------------------------------------------
(* parse_logistics_data: folding the physical lines                        *)


\* the words of the code (header tokens, facility suffixes) and of the inputs
Words ==
    [RefNo |-> <<"R", "e", "f", SP, "N", "o">>,
     PickupFrom |-> <<"P", "i", "c", "k", "u", "p", SP, "F", "r", "o", "m">>,
     Origin |-> <<"O", "r", "i", "g", "i", "n">>,
     first_sector |-> <<"1", "s", "t", SP, "s", "e", "c", "t", "o", "r">>,
     airport |-> <<SP, "a", "i", "r", "p", "o", "r", "t">>,
     seaport |-> <<SP, "s", "e", "a", "p", "o", "r", "t">>,
     A001 |-> <<"A", "0", "0", "1">>,
     S001 |-> <<"S", "0", "0", "1">>,
     X001 |-> <<"X", "0", "0", "1">>,
     Depot |-> <<"D", "e", "p", "o", "t", SP, "5">>,
     NO_PICKUP |-> <<"N", "O", SP, "P", "I", "C", "K", "U", "P">>,
     n_a |-> <<"n", "/", "a">>,
     None_padded |-> <<SP, "N", "o", "n", "e", SP>>,
     N_A_dots |-> <<"N", ".", "A", ".">>,
     SGSIN |-> <<"S", "G", "S", "I", "N">>,
     KRICN |-> <<"K", "R", "I", "C", "N">>,
     MainSt |-> <<"1", "2", "3", SP, "M", "a", "i", "n", SP, "S", "t">>,
     SQ600 |-> <<"S", "Q", "6", "0", "0">>,
     KE644 |-> <<"K", "E", "6", "4", "4">>,
     date1 |-> <<"3", "/", "7", "/", "2", "0", "2", "5">>,
     date2 |-> <<"1", "4", "/", "0", "7", "/", "2", "0", "2", "5">>,
     TBC |-> <<"T", "B", "C">>]

HeaderTokens == {Words.RefNo, Words.PickupFrom, Words.Origin, Words.first_sector}

\* any(x in line for x in ['Ref No', 'Pickup From', 'Origin', '1st sector'])
IsHeaderLine(line) == \E x \in HeaderTokens : Contains(line, x)

\* re.match(r'^\d+\t', line)
IsRecordStart(line) ==
    \E k \in 1..(Len(line) - 1) :
        /\ \A i \in 1..k : IsDigit(line[i])
        /\ line[k + 1] = TAB

\* text.strip().split('\n')
SplitLines(t) == SplitOn(Strip(t), NL)

---------------------------------------------------------------------------
(* csv.reader(StringIO(line), delimiter='\t', quotechar='"'), first row    *)

\* One character of the reader's automaton; st.err is csv.Error.
CsvChar(st, c) ==
    LET save == [st EXCEPT !.fields = Append(st.fields, st.field), !.field = <<>>]
        add == [st EXCEPT !.field = Append(st.field, c)]
        s0 == IF st.state = "START_RECORD" /\ c \notin {NL, CR}
              THEN "START_FIELD" ELSE st.state
    IN  CASE s0 = "START_RECORD" -> [st EXCEPT !.state = "EAT_CRNL"]
          [] s0 = "START_FIELD" ->
                IF c \in {NL, CR} THEN [save EXCEPT !.state = "EAT_CRNL"]
                ELSE IF c = DQ THEN [st EXCEPT !.state = "IN_QUOTED_FIELD"]
                ELSE IF c = TAB THEN [save EXCEPT !.state = "START_FIELD"]
                ELSE [add EXCEPT !.state = "IN_FIELD"]
          [] s0 = "IN_FIELD" ->
                IF c \in {NL, CR} THEN [save EXCEPT !.state = "EAT_CRNL"]
                ELSE IF c = TAB THEN [save EXCEPT !.state = "START_FIELD"]
                ELSE add
          [] s0 = "IN_QUOTED_FIELD" ->
                IF c = DQ THEN [st EXCEPT !.state = "QUOTE_IN_QUOTED_FIELD"]
                ELSE add
          [] s0 = "QUOTE_IN_QUOTED_FIELD" ->
                IF c = DQ THEN [add EXCEPT !.state = "IN_QUOTED_FIELD"]
                ELSE IF c = TAB THEN [save EXCEPT !.state = "START_FIELD"]
                ELSE IF c \in {NL, CR} THEN [save EXCEPT !.state = "EAT_CRNL"]
                ELSE [add EXCEPT !.state = "IN_FIELD"]
          [] s0 = "EAT_CRNL" ->
                IF c \in {NL, CR} THEN st ELSE [st EXCEPT !.err = TRUE]

\* The end of the line, then the end of the input.
CsvEnd(st) ==
    LET save == [st EXCEPT !.fields = Append(st.fields, st.field), !.field = <<>>]
    IN  IF st.state \in {"START_FIELD", "IN_FIELD", "QUOTE_IN_QUOTED_FIELD",
                         "IN_QUOTED_FIELD"}
        THEN save ELSE st

\* The characters line[lo..hi] in order, stopping at csv.Error.
RECURSIVE CsvRun(_, _, _, _)
CsvRun(line, lo, hi, st) ==
    IF st.err \/ lo > hi THEN st
    ELSE IF lo = hi THEN CsvChar(st, line[lo])
    ELSE LET mid == (lo + hi) \div 2
         IN  CsvRun(line, mid + 1, hi, CsvRun(line, lo, mid, st))

\* next(csv_reader): [exc, fields]; exc is "" when a row comes back
CsvFirstRow(line) ==
    IF line = <<>> THEN [exc |-> "StopIteration", fields |-> <<>>]
    ELSE LET st == CsvEnd(CsvRun(line, 1, Len(line),
                                 [state |-> "START_RECORD", field |-> <<>>,
                                  fields |-> <<>>, err |-> FALSE]))
         IN  IF st.err THEN [exc |-> "csv.Error", fields |-> <<>>]
             ELSE [exc |-> "", fields |-> st.fields]

---------------------------------------------------------------------------
(* parse_logistics_data: the sector sequencer                              *)

\* re.match(r'\d{1,2}/\d{1,2}/\d{4}', flight_date): a prefix match
DateMatch(d) ==
    \E a \in 1..2, b \in 1..2 :
        /\ Len(d) >= a + b + 6
        /\ \A i \in 1..a : IsDigit(d[i])
        /\ d[a + 1] = "/"
        /\ \A i \in (a + 2)..(a + b + 1) : IsDigit(d[i])
        /\ d[a + b + 2] = "/"
        /\ \A i \in (a + b + 3)..(a + b + 6) : IsDigit(d[i])

\* ref_no.startswith("A") / ("S"), else UNKNOWN
TransportType(ref_no) ==
    IF StartsWith(ref_no, <<"A">>) THEN "AIR"
    ELSE IF StartsWith(ref_no, <<"S">>) THEN "SEA"
    ELSE "UNKNOWN"

NoPickupTokens ==
    {<<>>, <<"N", "O", SP, "P", "I", "C", "K", "U", "P">>, <<"N", "/", "A">>,
     <<"N", "A">>, <<"N", "O", "N", "E">>}

\* _is_no_pickup(val)
IsNoPickupExact(val) == val = None \/ val \in NoPickupTokens
_is_no_pickup(val) == val = None \/ Upper(Strip(val)) \in NoPickupTokens


\* f"{code} airport" if transport_type == "AIR" else f"{code} seaport"
FacilityOf(code, transport_type) ==
    IF transport_type = "AIR" THEN code \o Words.airport ELSE code \o Words.seaport

StableSector(n, mode, from, to, number, date) ==
    [sector |-> n, mode |-> mode, from |-> from, to |-> to,
     transport_number |-> number, transport_date |-> date]

LegacySector(n, mode, from, to, number, date) ==
    [sector |-> n, flight_date |-> date, flight_number |-> number,
     from |-> from, to |-> to, mode |-> mode]

\* the while loop over the quadruples from column index 6 (here 7)
RECURSIVE AirLegsAnyDate(_, _, _, _)
AirLegsAnyDate(which, cols, current_index, sector_number) ==
    IF current_index + 3 <= Len(cols)
    THEN LET leg == IF which = "stable"
                    THEN StableSector(sector_number, "AIR",
                             cols[current_index + 2], cols[current_index + 3],
                             cols[current_index + 1], cols[current_index])
                    ELSE LegacySector(sector_number, "AIR",
                             cols[current_index + 2], cols[current_index + 3],
                             cols[current_index + 1], cols[current_index])
         IN  <<leg>> \o AirLegsAnyDate(which, cols, current_index + 4,
                                       sector_number + 1)
    ELSE <<>>

RECURSIVE AirLegs(_, _, _, _)
AirLegs(which, cols, current_index, sector_number) ==
    IF current_index + 3 <= Len(cols) /\ DateMatch(cols[current_index])
    THEN LET leg == IF which = "stable"
                    THEN StableSector(sector_number, "AIR",
                             cols[current_index + 2], cols[current_index + 3],
                             cols[current_index + 1], cols[current_index])
                    ELSE LegacySector(sector_number, "AIR",
                             cols[current_index + 2], cols[current_index + 3],
                             cols[current_index + 1], cols[current_index])
         IN  <<leg>> \o AirLegs(which, cols, current_index + 4, sector_number + 1)
    ELSE <<>>

\* for idx, s in enumerate(sectors, start=1): s['sector'] = idx
RenumberKeep(secs) == secs
Renumber(secs) == [i \in 1..Len(secs) |-> [secs[i] EXCEPT !.sector = i]]

\* the base legs of src/stable/server.py: AIR quadruples, one SEA leg, or none
StableBaseLegsSeaQuadruples(cols) ==
    LET tt == TransportType(cols[2])
    IN  IF tt = "AIR" THEN AirLegs("stable", cols, 7, 1)
        ELSE IF tt = "SEA"
        THEN <<StableSector(1, "SEA", cols[4], cols[5], None, None)>>
                 \o AirLegs("stable", cols, 7, 2)
        ELSE <<>>
StableBaseLegs(cols) ==
    LET tt == TransportType(cols[2])
    IN  IF tt = "AIR" THEN AirLegs("stable", cols, 7, 1)
        ELSE IF tt = "SEA"
        THEN <<StableSector(1, "SEA", cols[4], cols[5], None, None)>>
        ELSE <<>>

\* the TRUCK legs around the base legs
PickupNever(base, pickup_truck, pickup_from) == base
PickupAlways(base, pickup_truck, pickup_from) == <<pickup_truck>> \o base
WithPickup(base, pickup_truck, pickup_from) ==
    IF ~_is_no_pickup(pickup_from) THEN <<pickup_truck>> \o base ELSE base

DeliveryFromOrigin(origin, destination, transport_type) ==
    FacilityOf(origin, transport_type)
DeliveryFrom(origin, destination, transport_type) ==
    FacilityOf(destination, transport_type)

\* src/stable/server.py: the sectors of one record, before the distances
StableSectors(cols) ==
    LET pickup_from == cols[3]
        origin == cols[4]
        destination == cols[5]
        delivery_to == cols[6]
        tt == TransportType(cols[2])
        base == StableBaseLegs(cols)
        truck == StableSector(1, "TRUCK", pickup_from, FacilityOf(origin, tt),
                              None, None)
        inserted == WithPickup(base, truck, pickup_from)
        numbered == IF Len(inserted) > Len(base) THEN Renumber(inserted)
                    ELSE inserted
        last_sector_no == IF numbered # <<>>
                          THEN numbered[Len(numbered)].sector ELSE 0
    IN  Append(numbered,
               StableSector(last_sector_no + 1, "TRUCK",
                            DeliveryFrom(origin, destination, tt), delivery_to,
                            None, None))

\* src/server.py: every record is sequenced as AIR
LegacySectors(cols) ==
    LET pickup_from == cols[3]
        origin == cols[4]
        destination == cols[5]
        delivery_to == cols[6]
        base == AirLegs("legacy", cols, 7, 1)
        truck == LegacySector(1, "TRUCK", pickup_from, origin \o Words.airport,
                              None, None)
        inserted == WithPickup(base, truck, pickup_from)
        numbered == Renumber(inserted)
        last_sector_no == IF numbered # <<>>
                          THEN numbered[Len(numbered)].sector ELSE 0
    IN  Append(numbered,
               LegacySector(last_sector_no + 1, "TRUCK",
                            DeliveryFrom(origin, destination, "AIR"),
                            delivery_to, None, None))

BuildSectors(which, cols) ==
    IF which = "stable" THEN StableSectors(cols) ELSE LegacySectors(cols)

---------------------------------------------------------------------------
(* The location resolver                                                   *)

\* IATA_COORDS: the keys of the static table; a coordinate pair is named
\* after its key
IATA_COORDS_stable ==
    (<<"Z", "R", "H">> :> "ZRH") @@ (<<"J", "F", "K">> :> "JFK") @@
    (<<"S", "I", "N">> :> "SIN") @@ (<<"D", "X", "B">> :> "DXB") @@
    (<<"I", "C", "N">> :> "ICN") @@
    (<<"C", "N", "S", "H", "A">> :> "CNSHA") @@
    (<<"C", "N", "Z", "O", "S">> :> "CNZOS") @@
    (<<"C", "N", "S", "Z", "X">> :> "CNSZX") @@
    (<<"C", "N", "T", "A", "O">> :> "CNTAO") @@
    (<<"C", "N", "C", "A", "N">> :> "CNCAN") @@
    (<<"K", "R", "P", "U", "S">> :> "KRPUS") @@
    (<<"C", "N", "T", "S", "N">> :> "CNTSN") @@
    (<<"H", "K", "H", "K", "G">> :> "HKHKG") @@
    (<<"N", "L", "R", "T", "M">> :> "NLRTM") @@
    (<<"P", "H", "M", "N", "S">> :> "PHMNS") @@
    (<<"P", "K", "K", "H", "I">> :> "PKKHI")

IATA_COORDS_legacy ==
    (<<"Z", "R", "H">> :> "ZRH") @@ (<<"J", "F", "K">> :> "JFK") @@
    (<<"S", "I", "N">> :> "SIN") @@ (<<"D", "X", "B">> :> "DXB") @@
    (<<"I", "C", "N">> :> "ICN")

IATA_COORDS(which) ==
    IF which = "stable" THEN IATA_COORDS_stable ELSE IATA_COORDS_legacy

\* a coordinate pair that is None
NoCoords == "None"

\* _iata_from_unlocode(code); None when no code is read
_iata_from_unlocode(which, code0) ==
    IF code0 = <<>> THEN None
    ELSE LET code == RemoveSpaces(Upper(Strip(code0)))
         IN  IF /\ Len(code) = 5
                /\ IsAlpha(SubSeq(code, 1, 2))
                /\ IsAlnum(SubSeq(code, 3, 5))
             THEN SubSeq(code, 3, 5)
             ELSE IF which = "stable" /\ Len(code) \in {3, 4, 5} /\ IsAlpha(code)
             THEN code
             ELSE None

\* \w and \b of Python's re
IsWordChar(c) == IsLetter(c) \/ IsDigit(c) \/ c = "_"
IsWordAt(s, i) == i >= 1 /\ i <= Len(s) /\ IsWordChar(s[i])
BoundaryBefore(s, i) == IsWordAt(s, i - 1) # IsWordAt(s, i)

\* re.match(r'^([A-Z]{3,5})\s+<word>', s, re.IGNORECASE): group 1 or None
MatchCodeThenWord(s, word) ==
    LET ok(k, w) ==
            /\ k + w + Len(word) <= Len(s)
            /\ \A i \in 1..k : IsLetter(s[i])
            /\ \A i \in (k + 1)..(k + w) : s[i] \in Whitespace
            /\ Lower(SubSeq(s, k + w + 1, k + w + Len(word))) = word
        hits == {k \in 3..5 : \E w \in 1..Len(s) : ok(k, w)}
    IN  IF hits = {} THEN None ELSE SubSeq(s, 1, SetMax(hits))

\* re.search(r'([A-Z]{lo,hi})\s+airport\b', u): group 1 of the leftmost
\* match or None; the pattern is case sensitive
SearchCodeAirport(u, lo, hi) ==
    LET word == <<"a", "i", "r", "p", "o", "r", "t">>
        ok(i, k, w) ==
            /\ i + k + w + Len(word) - 1 <= Len(u)
            /\ \A j \in i..(i + k - 1) : IsUpperAZ(u[j])
            /\ \A j \in (i + k)..(i + k + w - 1) : u[j] \in Whitespace
            /\ SubSeq(u, i + k + w, i + k + w + Len(word) - 1) = word
            /\ BoundaryBefore(u, i + k + w + Len(word))
        starts == {i \in 1..Len(u) :
                      \E k \in lo..hi : \E w \in 1..Len(u) : ok(i, k, w)}
    IN  IF starts = {} THEN None
        ELSE LET i == SetMin(starts)
                 k == SetMax({n \in lo..hi : \E w \in 1..Len(u) : ok(i, n, w)})
             IN  SubSeq(u, i, i + k - 1)

\* re.search(r'\b(\d{6})\b', s): group 1 of the leftmost match or None
SearchPostal6(s) ==
    LET ok(i) == /\ i + 5 <= Len(s)
                 /\ \A j \in i..(i + 5) : IsDigit(s[j])
                 /\ BoundaryBefore(s, i)
                 /\ BoundaryBefore(s, i + 6)
        starts == {i \in 1..Len(s) : ok(i)}
    IN  IF starts = {} THEN None
        ELSE SubSeq(s, SetMin(starts), SetMin(starts) + 5)

\* re.search(r'\b(\d{5}(?:-\d{4})?)\b', s): group 1 of the leftmost match
SearchZip(s) ==
    LET five(i) == /\ i + 4 <= Len(s)
                   /\ \A j \in i..(i + 4) : IsDigit(s[j])
                   /\ BoundaryBefore(s, i)
        plus4(i) == /\ five(i)
                    /\ i + 9 <= Len(s)
                    /\ s[i + 5] = "-"
                    /\ \A j \in (i + 6)..(i + 9) : IsDigit(s[j])
                    /\ BoundaryBefore(s, i + 10)
        short(i) == five(i) /\ BoundaryBefore(s, i + 5)
        starts == {i \in 1..Len(s) : plus4(i) \/ short(i)}
    IN  IF starts = {} THEN None
        ELSE LET i == SetMin(starts)
             IN  IF plus4(i) THEN SubSeq(s, i, i + 9) ELSE SubSeq(s, i, i + 4)

---------------------------------------------------------------------------
(* The memoized provider calls.  g = [qc, gc, calls]: the two lru_caches  *)
(* and the log of external calls; world[q] = [n, g] is what Nominatim and *)
(* Google answer for query q when they are asked during this resolution.  *)

\* lru_cache(maxsize=512)
LRU_MAXSIZE == 512

\* what geocoder.geocode(query, timeout=10) does: a location, nothing, raise
NominatimOutcomes == {"P1", "empty", "raise"}
\* what _geocode_google returns: a location, or None (status not OK, no
\* result, timeout, malformed response)
GoogleOutcomes == {"P2", NoCoords}

CacheIndex(cache, q) ==
    IF \E i \in 1..Len(cache) : cache[i].q = q
    THEN CHOOSE i \in 1..Len(cache) : cache[i].q = q
    ELSE 0

\* a hit makes the entry the most recently used
LruTouch(cache, i) ==
    SubSeq(cache, 1, i - 1) \o SubSeq(cache, i + 1, Len(cache)) \o <<cache[i]>>

\* a miss stores the result, evicting the least recently used entry when full
LruPut(cache, entry) ==
    IF Len(cache) >= LRU_MAXSIZE THEN Append(Tail(cache), entry)
    ELSE Append(cache, entry)

\* _geocode_google(query), the body: requests.get(...), once per miss; the
\* API key is set (src/stable/server.py holds it in the code)
GoogleMiss(g, q, r) ==
    [r |-> r,
     g |-> [g EXCEPT !.gc = LruPut(@, [q |-> q, r |-> r]),
                     !.calls = Append(@, [p |-> "google", q |-> q])]]

\* _geocode_google(query)
_geocode_google(g, world, q) ==
    IF CacheIndex(g.gc, q) # 0
    THEN [r |-> g.gc[CacheIndex(g.gc, q)].r,
          g |-> [g EXCEPT !.gc = LruTouch(@, CacheIndex(g.gc, q))]]
    ELSE GoogleMiss(g, q, world[q].g)

\* geocoder.geocode(query, timeout=10), then time.sleep(1/3) unless it raised
Asked(g, q, n) ==
    [g EXCEPT !.calls =
        @ \o (IF n = "raise" THEN <<[p |-> "nominatim", q |-> q]>>
              ELSE <<[p |-> "nominatim", q |-> q], [p |-> "sleep", q |-> q]>>)]

\* the lru_cache of _geocode_query stores what the body returns
Store(res, q) ==
    [r |-> res.r, g |-> [res.g EXCEPT !.qc = LruPut(@, [q |-> q, r |-> res.r])]]

\* _geocode_query(query), the body: Nominatim, then the Google fallback
QueryBoth(g, world, q, n) ==
    IF n \notin {"empty", "raise"}
    THEN Store([r |-> n, g |-> _geocode_google(Asked(g, q, n), world, q).g], q)
    ELSE Store(_geocode_google(Asked(g, q, n), world, q), q)
QueryMiss(g, world, q, n) ==
    IF n \notin {"empty", "raise"} THEN Store([r |-> n, g |-> Asked(g, q, n)], q)
    ELSE Store(_geocode_google(Asked(g, q, n), world, q), q)

\* _geocode_query(query)
_geocode_query(g, world, q) ==
    IF CacheIndex(g.qc, q) # 0
    THEN [r |-> g.qc[CacheIndex(g.qc, q)].r,
          g |-> [g EXCEPT !.qc = LruTouch(@, CacheIndex(g.qc, q))]]
    ELSE QueryMiss(g, world, q, world[q].n)

\* A step of _coords_for_location gives [r, g, done]: done when the
\* function returns r there, else the next step goes on from g. A step is
\* handed the outcome of the steps before it (hit) and is skipped when they
\* returned.
Pass(g) == [r |-> NoCoords, g |-> g, done |-> FALSE]

\* return IATA_COORDS[key]: no call, no cache change
Static(which, key, g) == [r |-> IATA_COORDS(which)[key], g |-> g, done |-> TRUE]
InTable(which, key) == key \in DOMAIN IATA_COORDS(which)

\* hit = _geocode_query(q); if hit: return hit
IfHit(res) == [r |-> res.r, g |-> res.g, done |-> res.r # NoCoords]
Try(g, world, q) == IfHit(_geocode_query(g, world, q))

\* a or b
FirstSome(a, b) == IF a # None THEN a ELSE b

\* step 1: the code in front of 'seaport' or 'port', looked up in the table
PortTable(g, code) ==
    IF InTable("stable", code) THEN Static("stable", code, g)
    ELSE IF Len(code) = 5 /\ InTable("stable", SubSeq(code, 3, 5))
    THEN Static("stable", SubSeq(code, 3, 5), g)
    ELSE Pass(g)

PortLookup(g, code_match) ==
    IF code_match = None THEN Pass(g) ELSE PortTable(g, Upper(code_match))

\* step 1 of src/stable/server.py: '<code> seaport', '<code> port'
PortStep(g, s) ==
    IF ~Contains(Lower(s), <<"p", "o", "r", "t">>) THEN Pass(g)
    ELSE PortLookup(g,
             FirstSome(MatchCodeThenWord(s, <<"s", "e", "a", "p", "o", "r", "t">>),
                       MatchCodeThenWord(s, <<"p", "o", "r", "t">>)))

\* if iata: the table, else _geocode_query(f"{iata} airport")
CodeLookup(which, g, world, iata) ==
    IF iata = None THEN Pass(g)
    ELSE IF InTable(which, iata) THEN Static(which, iata, g)
    ELSE Try(g, world, iata \o Words.airport)

\* step 2: the whole string as a UN/LOCODE or IATA code
CodeStep(which, hit, world, s) ==
    IF hit.done THEN hit
    ELSE CodeLookup(which, hit.g, world, _iata_from_unlocode(which, s))

\* step 3, second part: any 3-5 (src/server.py: 3) letter code just before
\* 'airport'
AirportCode(which, hit, world, s) ==
    IF hit.done THEN hit
    ELSE CodeLookup(which, hit.g, world,
             SearchCodeAirport(Upper(s), 3, IF which = "stable" THEN 5 ELSE 3))

\* step 3, first part: the first token as a 5-character UN/LOCODE
AirportToken(which, g, world, s, first_tok) ==
    IF Len(first_tok) = 5 /\ IsAlpha(SubSeq(first_tok, 1, 2))
    THEN AirportCode(which, CodeLookup(which, g, world, SubSeq(first_tok, 3, 5)),
                     world, s)
    ELSE AirportCode(which, Pass(g), world, s)

\* step 3: strings holding 'airport'
AirportStep(which, hit, world, s) ==
    IF hit.done THEN hit
    ELSE IF ~Contains(Lower(s), <<"a", "i", "r", "p", "o", "r", "t">>)
    THEN Pass(hit.g)
    ELSE AirportToken(which, hit.g, world, s, Upper(FirstToken(s)))

\* step 4 of src/stable/server.py: the whole string as a key of the table
WholeStep(which, hit, s) ==
    IF hit.done THEN hit
    ELSE IF which = "stable" /\ InTable(which, s) THEN Static(which, s, hit.g)
    ELSE Pass(hit.g)

\* step 6: a postal code found in the string is queried
PostalAnyway(hit, world, found) ==
    IF found = None THEN Pass(hit.g) ELSE Try(hit.g, world, found)
PostalStep(hit, world, found) ==
    IF hit.done THEN hit
    ELSE IF found = None THEN Pass(hit.g)
    ELSE Try(hit.g, world, found)

\* steps 5 and 6: the whole string, then the postal codes found in it
RawStep(hit, world, s) == IF hit.done THEN hit ELSE Try(hit.g, world, s)
FreeText(hit, world, s) ==
    PostalStep(PostalStep(RawStep(hit, world, s), world, SearchPostal6(s)),
               world, SearchZip(s))

\* _coords_for_location(loc_str): [r, g, done], r the value returned and g
\* the caches and the call log it leaves
_coords_for_location(which, g, world, loc_str) ==
    IF loc_str = None \/ loc_str = <<>> THEN Pass(g)
    ELSE FreeText(
           WholeStep(which,
             AirportStep(which,
               CodeStep(which,
                 IF which = "stable" THEN PortStep(g, Strip(loc_str))
                 ELSE Pass(g),
                 world, Strip(loc_str)),
               world, Strip(loc_str)),
             Strip(loc_str)),
           world, Strip(loc_str))

\* every query string _coords_for_location(loc_str) can build
QueryForms(which, loc_str) ==
    IF loc_str = None \/ loc_str = <<>> THEN {}
    ELSE
    LET s == Strip(loc_str)
        iata == _iata_from_unlocode(which, s)
        first_tok == Upper(FirstToken(s))
        iata3 == IF which = "stable" THEN SearchCodeAirport(Upper(s), 3, 5)
                 ELSE SearchCodeAirport(Upper(s), 3, 3)
    IN  {s}
        \cup (IF iata # None THEN {iata \o Words.airport} ELSE {})
        \cup (IF Len(first_tok) = 5
              THEN {SubSeq(first_tok, 3, 5) \o Words.airport} ELSE {})
        \cup (IF iata3 # None THEN {iata3 \o Words.airport} ELSE {})
        \cup ({SearchPostal6(s), SearchZip(s)} \ {None})

\* the providers fail on every query
NoAnswers(which, loc_str) ==
    [q \in QueryForms(which, loc_str) |-> [n |-> "empty", g |-> NoCoords]]
Queried(res) == {res.g.calls[i].q : i \in DOMAIN res.g.calls}

\* the queries _coords_for_location(loc_str) hands to _geocode_query when
\* nothing is cached and every provider fails: the most it can ever ask
Candidates(which, loc_str) ==
    Queried(_coords_for_location(which,
                [qc |-> <<>>, gc |-> <<>>, calls |-> <<>>],
                NoAnswers(which, loc_str), loc_str))

\* the answers the providers may give to the queries of one resolution
Worlds(which, loc_str) ==
    [Candidates(which, loc_str) -> [n : NominatimOutcomes, g : GoogleOutcomes]]

---------------------------------------------------------------------------
(* The distance calculator                                                 *)

\* round(geodesic(ca, cb).kilometers, 1), in tenths of a km, for the table
\* entries SIN, ICN and HKHKG and for the two places the providers answer
\* with: P1 = (37.5665, 126.9780), P2 = (37.4563, 126.7052)
geodesic(ca, cb) ==
    LET pair == {ca, cb}
    IN  CASE ca = cb -> 0
          [] pair = {"SIN", "ICN"} -> 46118
          [] pair = {"SIN", "HKHKG"} -> 25672
          [] pair = {"SIN", "P1"} -> 46491
          [] pair = {"SIN", "P2"} -> 46250
          [] pair = {"ICN", "HKHKG"} -> 20498
          [] pair = {"ICN", "P1"} -> 489
          [] pair = {"ICN", "P2"} -> 234
          [] pair = {"HKHKG", "P1"} -> 20889
          [] pair = {"HKHKG", "P2"} -> 20641
          [] pair = {"P1", "P2"} -> 270

\* distance_km = None (src/server.py)
NoDistance == -1

\* what _distance_between returns when an endpoint is not resolved:
\* 0.0 in src/stable/server.py, None in src/server.py
Unresolved(which) == IF which = "stable" THEN 0 ELSE NoDistance

\* the tail of _distance_between(a, b), given the two resolutions
DistanceOf(which, ca, cb) ==
    IF ca = NoCoords \/ cb = NoCoords THEN Unresolved(which)
    ELSE geodesic(ca, cb)

---------------------------------------------------------------------------
(* The emission factor selector and the aggregator (src/stable/server.py) *)

\* EF_TABLE, in thousandths of kg CO2 per tonne-km
EF_TABLE ==
    [road |-> [heavy_full |-> 50, heavy_avg |-> 80, medium |-> 200,
               light |-> 400],
     air |-> [freighter_long |-> 500, belly_long |-> 770,
              freighter_short |-> 1200, belly_short |-> 980],
     sea |-> [container |-> 15, bulk_carrier |-> 10, tanker |-> 12,
              general_cargo |-> 20]]

\* threshold for short-haul air, in km
SHORT_HAUL_MAX_KM == 1500

\* dict.get(key, default)
DictGetOrZero(d, key, default) == IF key \in DOMAIN d THEN d[key] ELSE 0
DictGet(d, key, default) == IF key \in DOMAIN d THEN d[key] ELSE default

\* distance_km <= SHORT_HAUL_MAX_KM, the distance in tenths of a km
IsShortHaulExclusive(distance_km) == distance_km < SHORT_HAUL_MAX_KM * 10
IsShortHaulSwapped(distance_km) == distance_km >= SHORT_HAUL_MAX_KM * 10
IsShortHaul(distance_km) == distance_km <= SHORT_HAUL_MAX_KM * 10

\* get_emission_factor(mode, subtype, distance_km)
EmissionFactorAirLookup(mode, subtype, distance_km) ==
    IF mode = "TRUCK"
    THEN DictGet(EF_TABLE.road, subtype, EF_TABLE.road.heavy_avg)
    ELSE IF mode = "AIR"
    THEN LET d == IF distance_km = NoDistance THEN 0 ELSE distance_km
         IN  IF IsShortHaul(d)
             THEN IF subtype = "freighter" THEN EF_TABLE.air.freighter_short
                  ELSE IF subtype = "belly" THEN EF_TABLE.air.belly_short
                  ELSE 0
             ELSE IF subtype = "freighter" THEN EF_TABLE.air.freighter_long
                  ELSE IF subtype = "belly" THEN EF_TABLE.air.belly_long
                  ELSE 0
    ELSE IF mode = "SEA"
    THEN DictGet(EF_TABLE.sea, subtype, EF_TABLE.sea.container)
    ELSE 0
get_emission_factor(mode, subtype, distance_km) ==
    IF mode = "TRUCK"
    THEN DictGet(EF_TABLE.road, subtype, EF_TABLE.road.heavy_avg)
    ELSE IF mode = "AIR"
    THEN LET d == IF distance_km = NoDistance THEN 0 ELSE distance_km
         IN  IF IsShortHaul(d)
             THEN IF subtype = "freighter" THEN EF_TABLE.air.freighter_short
                  ELSE EF_TABLE.air.belly_short
             ELSE IF subtype = "freighter" THEN EF_TABLE.air.freighter_long
                  ELSE EF_TABLE.air.belly_long
    ELSE IF mode = "SEA"
    THEN DictGet(EF_TABLE.sea, subtype, EF_TABLE.sea.container)
    ELSE 0

\* the subtype calculate_shipment_emissions hands over for a sector's mode
SubtypeFor(mode, road_subtype, air_subtype, sea_subtype) ==
    IF mode = "TRUCK" THEN road_subtype
    ELSE IF mode = "AIR" THEN air_subtype
    ELSE IF mode = "SEA" THEN sea_subtype
    ELSE "default"

\* s.get("distance_km") or 0.0
DistAsIs(s) == IF "distance_km" \notin DOMAIN s THEN 0 ELSE s.distance_km
DistOrZero(s) ==
    IF "distance_km" \notin DOMAIN s \/ s.distance_km = NoDistance THEN 0
    ELSE s.distance_km

RECURSIVE SumEmissions(_)
SumEmissions(by_sector) ==
    IF by_sector = <<>> THEN 0
    ELSE by_sector[1].emissions_kg + SumEmissions(Tail(by_sector))

\* calculate_shipment_emissions(shipment, weight_kg, road, air, sea);
\* emissions_kg = weight_t * dist * ef.  The weight is counted in units of
\* 100 kg, the distance in tenths of a km and the factor in thousandths, so
\* emissions are in units of 1e-5 kg and stay within TLC's integers.
calculate_shipment_emissions(shipment, weight_100kg, road_subtype, air_subtype, sea_subtype) ==
    LET one(s) ==
            LET dist == DistOrZero(s)
                ef == get_emission_factor(s.mode,
                          SubtypeFor(s.mode, road_subtype, air_subtype,
                                     sea_subtype), dist)
            IN  [sector |-> s, emission_factor |-> ef,
                 emissions_kg |-> weight_100kg * dist * ef]
        by_sector == [i \in 1..Len(shipment.sectors) |-> one(shipment.sectors[i])]
    IN  [ref_no |-> shipment.ref_no,
         total_emissions_kg |-> SumEmissions(by_sector),
         by_sector |-> by_sector]

---------------------------------------------------------------------------
(* The manifests the requests carry                                        *)

\* the most AIR quadruples a record of the model carries
MaxLegs == 2


Quoted(s) == <<DQ>> \o s \o <<DQ>>

InRefs == {Words.A001, Words.S001, Words.X001, <<>>}
SentinelPickups == {Words.NO_PICKUP, Words.n_a, Words.None_padded, <<>>}
RealPickups == {Words.Depot, Words.N_A_dots}
InPickups == SentinelPickups \cup RealPickups
InTails == {"none", "baddate", "short"}

\* the k-th quadruple of a record: SGSIN -> KRICN, then back, and so on
Quad(k) ==
    IF k % 2 = 1 THEN <<Words.date1, Words.SQ600, Words.SGSIN, Words.KRICN>>
    ELSE <<Words.date2, Words.KE644, Words.KRICN, Words.SGSIN>>

RECURSIVE Quads(_)
Quads(n) == IF n = 0 THEN <<>> ELSE Quads(n - 1) \o Quad(n)

\* what follows the n valid quadruples
TailCols(n, tail) ==
    CASE tail = "none" -> <<>>
      [] tail = "baddate" -> <<Words.TBC, Words.SQ600, Words.SGSIN, Words.KRICN>> \o Quad(n + 1)
      [] tail = "short" -> <<Words.date1, Words.SQ600, Words.SGSIN>>

\* one manifest line: seq, ref, pickup, origin, destination, "delivery", legs
RecordLine(seqno, ref, pickup, n, tail) ==
    Join(<<seqno, ref, pickup, Words.SGSIN, Words.KRICN, Quoted(Words.MainSt)>>
             \o Quads(n) \o TailCols(n, tail), TAB)

OneRecordTexts ==
    {RecordLine(<<"1">>, ref, pickup, n, tail) :
        ref \in InRefs, pickup \in InPickups, n \in 0..MaxLegs, tail \in InTails}

HeaderLine ==
    Join(<<<<"S", "/", "N">>, Words.RefNo, Words.PickupFrom, Words.Origin>>, TAB)

\* manifests exercising the line folding, the tokenizer and the column check
SpecialTexts ==
    {<<>>,
     HeaderLine,
     \* a header, a record, and a record of five columns
     Join(<<HeaderLine, RecordLine(<<"1">>, Words.A001, Words.Depot, 1, "none"),
            Join(<<<<"2">>, Words.S001, Words.Depot, Words.SGSIN, Words.KRICN>>, TAB)>>, NL),
     \* a quoted delivery address over two physical lines
     Join(<<Join(<<<<"1">>, Words.S001, Words.Depot, Words.SGSIN, Words.KRICN,
                   <<DQ, "1", "2", "3">>>>, TAB),
            <<"M", "a", "i", "n", SP, "S", "t", DQ>>>>, NL),
     \* an unbalanced quote
     Join(<<<<"1">>, Words.A001, Words.Depot, Words.SGSIN, Words.KRICN, <<DQ>> \o Words.MainSt>>
              \o Quad(1), TAB),
     \* CRLF line ends: the second record carries a continuation line
     Join(<<RecordLine(<<"1">>, Words.A001, Words.NO_PICKUP, 0, "none") \o <<CR>>,
            RecordLine(<<"2">>, Words.X001, Words.NO_PICKUP, 0, "none") \o <<CR>>,
            <<"L", "e", "v", "e", "l", SP, "2">>>>, NL),
     \* ragged: no tab at all
     Words.MainSt}

InTexts == OneRecordTexts \cup SpecialTexts

---------------------------------------------------------------------------
(* One request: parse_logistics_data(text), then /calculate                *)

\* the body of the folding loop for one physical line
FoldStepSplit(cur, cleaned, line) ==
    IF IsHeaderLine(line) THEN [cur |-> cur, cleaned |-> cleaned]
    ELSE IF cur # <<>>
    THEN [cur |-> line, cleaned |-> Append(cleaned, cur)]
    ELSE [cur |-> cur \o <<SP>> \o Strip(line), cleaned |-> cleaned]
FoldStep(cur, cleaned, line) ==
    IF IsHeaderLine(line) THEN [cur |-> cur, cleaned |-> cleaned]
    ELSE IF IsRecordStart(line) /\ cur # <<>>
    THEN [cur |-> line, cleaned |-> Append(cleaned, cur)]
    ELSE [cur |-> cur \o <<SP>> \o Strip(line), cleaned |-> cleaned]

\* "except Exception as e": csv.Error and StopIteration are both caught
ExceptNothing(exc) == FALSE
ExceptException(exc) == exc \in {"csv.Error", "StopIteration"}

\* if len(columns) < 6: skip the record
MinColumns == 6
TooFewColumns(cols) == Len(cols) < MinColumns

\* shipment = {...}
Shipment(cols, secs) ==
    [ref_no |-> cols[2], pickup_from |-> cols[3], origin |-> cols[4],
     destination |-> cols[5], delivery_to |-> cols[6], sectors |-> secs,
     transport_type |-> TransportType(cols[2])]

\* s['distance_km'] = d
WithDistance(s, d) ==
    [k \in DOMAIN s \cup {"distance_km"} |->
        IF k = "distance_km" THEN d ELSE s[k]]

geo == [qc |-> query_cache, gc |-> google_cache, calls |-> calls]

\* one call of _coords_for_location: the argument, the coordinates returned
\* and the provider calls it made (sleeps are not provider calls)
Resolution(loc_str, res, calls_before) ==
    [loc |-> loc_str, r |-> res.r,
     external |-> SelectSeq(SubSeq(res.g.calls, Len(calls_before) + 1,
                                   Len(res.g.calls)),
                            LAMBDA c : c.p # "sleep")]

\* a process that has served nothing yet
Fresh ==
    /\ lines = <<>>
    /\ li = 1
    /\ current_line = <<>>
    /\ cleaned_lines = <<>>
    /\ ci = 1
    /\ columns = <<>>
    /\ sectors = <<>>
    /\ si = 1
    /\ from_coords = NoCoords
    /\ shipments = <<>>
    /\ skipped = <<>>
    /\ raised = FALSE
    /\ query_cache = <<>>
    /\ google_cache = <<>>
    /\ calls = <<>>
    /\ resolutions = <<>>
    /\ mapping = <<>>
    /\ llm_calls = <<>>
    /\ threads = <<>>
    /\ response = <<>>
    /\ results = <<>>
    /\ returned = <<>>

Init ==
    /\ impl \in {"stable", "legacy"}
    /\ text \in InTexts
    /\ pc = "start"
    /\ call = <<>>
    /\ Fresh

\* lines = text.strip().split('\n')
Receive ==
    /\ pc = "start"
    /\ lines' = SplitLines(text)
    /\ pc' = "fold"
    /\ UNCHANGED <<impl, threads, llm_calls, response, mapping, text, li, current_line, cleaned_lines, ci, columns,
                   sectors, si, from_coords, shipments, skipped, raised,
                   query_cache, google_cache, calls, results>>
    /\ UNCHANGED <<resolutions, call, returned>>

\* for line in lines: ...
FoldLine ==
    /\ pc = "fold"
    /\ li <= Len(lines)
    /\ LET f == FoldStep(current_line, cleaned_lines, lines[li])
       IN  /\ current_line' = f.cur
           /\ cleaned_lines' = f.cleaned
    /\ li' = li + 1
    /\ UNCHANGED <<impl, threads, llm_calls, response, mapping, text, pc, lines, ci, columns, sectors, si,
                   from_coords, shipments, skipped, raised, query_cache,
                   google_cache, calls, results>>
    /\ UNCHANGED <<resolutions, call, returned>>

\* if current_line: cleaned_lines.append(current_line)
FoldEnd ==
    /\ pc = "fold"
    /\ li > Len(lines)
    /\ cleaned_lines' = IF current_line # <<>>
                        THEN Append(cleaned_lines, current_line)
                        ELSE cleaned_lines
    /\ pc' = "records"
    /\ UNCHANGED <<impl, threads, llm_calls, response, mapping, text, lines, li, current_line, ci, columns, sectors,
                   si, from_coords, shipments, skipped, raised, query_cache,
                   google_cache, calls, results>>
    /\ UNCHANGED <<resolutions, call, returned>>

\* for line in cleaned_lines: tokenize, check the columns, build the sectors
ParseRecord ==
    /\ pc = "records"
    /\ ci <= Len(cleaned_lines)
    /\ LET row == CsvFirstRow(cleaned_lines[ci])
           cols == [i \in 1..Len(row.fields) |-> Strip(row.fields[i])]
       IN  IF row.exc # ""
           THEN IF ExceptException(row.exc)
                THEN /\ skipped' = Append(skipped, [record |-> ci, why |-> row.exc])
                     /\ ci' = ci + 1
                     /\ UNCHANGED <<pc, columns, sectors, si, raised>>
                ELSE /\ raised' = TRUE
                     /\ pc' = "raised"
                     /\ UNCHANGED <<ci, columns, sectors, si, skipped>>
           ELSE IF TooFewColumns(cols)
           THEN /\ skipped' = Append(skipped, [record |-> ci, why |-> "columns"])
                /\ ci' = ci + 1
                /\ UNCHANGED <<pc, columns, sectors, si, raised>>
           ELSE /\ columns' = cols
                /\ sectors' = BuildSectors(impl, cols)
                /\ si' = 1
                /\ pc' = "distance_from"
                /\ UNCHANGED <<ci, skipped, raised>>
    /\ UNCHANGED <<impl, threads, llm_calls, response, mapping, text, lines, li, current_line, cleaned_lines,
                   from_coords, shipments, query_cache, google_cache, calls,
                   results>>
    /\ UNCHANGED <<resolutions, call, returned>>

\* a call of _coords_for_location leaves the caches and the call log
Resolved(loc_str, res) ==
    /\ query_cache' = res.g.qc
    /\ google_cache' = res.g.gc
    /\ calls' = res.g.calls
    /\ resolutions' = Append(resolutions, Resolution(loc_str, res, calls))

\* ca = _coords_for_location(a)
GotFrom(res) ==
    /\ from_coords' = res.r
    /\ Resolved(sectors[si].from, res)

\* cb = _coords_for_location(b); s['distance_km'] = the distance
GotTo(res) ==
    /\ sectors' = [sectors EXCEPT ![si] =
                      WithDistance(@, DistanceOf(impl, from_coords, res.r))]
    /\ Resolved(sectors[si].to, res)

\* _distance_between: ca = _coords_for_location(a)
ResolveFrom ==
    /\ pc = "distance_from"
    /\ \E world \in Worlds(impl, sectors[si].from) :
          GotFrom(_coords_for_location(impl, geo, world, sectors[si].from))
    /\ pc' = "distance_to"
    /\ UNCHANGED <<impl, threads, llm_calls, response, mapping, text, lines, li, current_line, cleaned_lines, ci,
                   columns, sectors, si, shipments, skipped, raised, results>>
    /\ UNCHANGED <<call, returned>>

\* _distance_between: cb = _coords_for_location(b), and the distance
ResolveTo ==
    /\ pc = "distance_to"
    /\ \E world \in Worlds(impl, sectors[si].to) :
          GotTo(_coords_for_location(impl, geo, world, sectors[si].to))
    /\ from_coords' = NoCoords
    /\ si' = si + 1
    /\ pc' = IF si = Len(sectors) THEN "append" ELSE "distance_from"
    /\ UNCHANGED <<impl, threads, llm_calls, response, mapping, text, lines, li, current_line, cleaned_lines, ci,
                   columns, shipments, skipped, raised, results>>
    /\ UNCHANGED <<call, returned>>

\* shipments.append(shipment)
AppendShipment ==
    /\ pc = "append"
    /\ shipments' = Append(shipments, Shipment(columns, sectors))
    /\ ci' = ci + 1
    /\ pc' = "records"
    /\ UNCHANGED <<impl, threads, llm_calls, response, mapping, text, lines, li, current_line, cleaned_lines, columns,
                   sectors, si, from_coords, skipped, raised, query_cache,
                   google_cache, calls, results>>
    /\ UNCHANGED <<resolutions, call, returned>>

\* return shipments
ParseReturn ==
    /\ pc = "records"
    /\ ci > Len(cleaned_lines)
    /\ pc' = "parsed"
    /\ UNCHANGED <<impl, threads, llm_calls, response, mapping, text, lines, li, current_line, cleaned_lines, ci,
                   columns, sectors, si, from_coords, shipments, skipped,
                   raised, query_cache, google_cache, calls, results>>
    /\ UNCHANGED <<resolutions, call, returned>>

\* the selections a /calculate request of the model carries
\* weight_kg = 400 or 1000, in units of 100 kg
InWeights == {4, 10}
InRoadSubtypes == {"heavy_avg", "light"}
InAirSubtypes == {"belly", "freighter"}
InSeaSubtypes == {"container"}

\* POST /calculate with the parsed shipments (src/stable/server.py only);
\* the client may post them again with other selections
CalculateInPlace ==
    /\ pc \in {"parsed", "calculated"}
    /\ impl = "stable"
    /\ \E w \in InWeights, road \in InRoadSubtypes, air \in InAirSubtypes,
          sea \in InSeaSubtypes :
          /\ results' =
                 [weight_100kg |-> w, road_subtype |-> road,
                  air_subtype |-> air, sea_subtype |-> sea,
                  emission_results |->
                      [i \in 1..Len(shipments) |->
                          calculate_shipment_emissions(shipments[i], w, road,
                                                       air, sea)]]
          /\ shipments' =
                 [i \in 1..Len(shipments) |->
                     [shipments[i] EXCEPT !.sectors =
                         [j \in 1..Len(@) |->
                             WithDistance(@[j], DistOrZero(@[j]) * w)]]]
    /\ pc' = "calculated"
    /\ UNCHANGED <<impl, threads, llm_calls, response, mapping, text, lines, li, current_line, cleaned_lines, ci,
                   columns, sectors, si, from_coords, skipped,
                   raised, query_cache, google_cache, calls>>
    /\ UNCHANGED <<resolutions, call, returned>>
Calculate ==
    /\ pc \in {"parsed", "calculated"}
    /\ impl = "stable"
    /\ \E w \in InWeights, road \in InRoadSubtypes, air \in InAirSubtypes,
          sea \in InSeaSubtypes :
          results' =
              [weight_100kg |-> w, road_subtype |-> road, air_subtype |-> air,
               sea_subtype |-> sea,
               emission_results |->
                   [i \in 1..Len(shipments) |->
                       calculate_shipment_emissions(shipments[i], w, road,
                                                    air, sea)]]
    /\ pc' = "calculated"
    /\ UNCHANGED <<impl, threads, llm_calls, response, mapping, text, lines, li, current_line, cleaned_lines, ci,
                   columns, sectors, si, from_coords, shipments, skipped,
                   raised, query_cache, google_cache, calls>>
    /\ UNCHANGED <<resolutions, call, returned>>

Next ==
    \/ Receive
    \/ FoldLine
    \/ FoldEnd
    \/ ParseRecord
    \/ ResolveFrom
    \/ ResolveTo
    \/ AppendShipment
    \/ ParseReturn
    \/ Calculate

Spec == Init /\ [][Next]_vars

---------------------------------------------------------------------------
(* get_emission_factor called directly                                     *)

\* "None" stands for Python's None
InModes == {"TRUCK", "AIR", "SEA", "RAIL", "None"}
InSubtypes == {"belly", "freighter", "heavy_full", "heavy_avg", "medium",
               "light", "container", "bulk_carrier", "tanker",
               "general_cargo", "default", "Freighter", "None"}
\* None, 0, 1499.9, 1500, 1500.1 and 4611.8 km
InDistances == {NoDistance, 0, 14999, 15000, 15001, 46118}

InitEF ==
    /\ impl = "stable"
    /\ text = <<>>
    /\ pc = "ef"
    /\ call \in [mode : InModes, subtype : InSubtypes, distance_km : InDistances]
    /\ Fresh

\* returned = get_emission_factor(mode, subtype, distance_km)
GetEmissionFactor ==
    /\ pc = "ef"
    /\ returned = <<>>
    /\ returned' = <<get_emission_factor(call.mode, call.subtype,
                                         call.distance_km)>>
    /\ UNCHANGED <<impl, threads, llm_calls, response, mapping, text, pc, lines, li, current_line, cleaned_lines, ci,
                   columns, sectors, si, from_coords, shipments, skipped,
                   raised, query_cache, google_cache, calls, resolutions,
                   results, call>>

NextEF == GetEmissionFactor

SpecEF == InitEF /\ [][NextEF]_vars

---------------------------------------------------------------------------
(* One process run resolving many locations: a location, then other        *)
(* locations, then a location again                                        *)

\* the most other locations resolved in between
MaxFill == 512

Probes == {Words.MainSt, Words.KRICN \o Words.airport}

DigitChars == <<"0", "1", "2", "3", "4", "5", "6", "7", "8", "9">>
DigitChar(d) == DigitChars[d + 1]

\* the k-th other location: the decimal numeral of k, a free-text string
Filler(k) ==
    IF k < 10 THEN <<DigitChar(k)>>
    ELSE IF k < 100 THEN <<DigitChar(k \div 10), DigitChar(k % 10)>>
    ELSE <<DigitChar(k \div 100), DigitChar((k \div 10) % 10),
           DigitChar(k % 10)>>

\* Nominatim knows every one of the other locations
FillerWorld(loc_str) ==
    [q \in Candidates(impl, loc_str) |-> [n |-> "P1", g |-> NoCoords]]

\* the other locations resolved so far
FillCount == Len(resolutions) - 1

\* _coords_for_location(loc_str) in a world
Lookup(loc_str, world, then) ==
    /\ Resolved(loc_str, _coords_for_location(impl, geo, world, loc_str))
    /\ pc' = then
    /\ UNCHANGED <<impl, threads, llm_calls, response, mapping, text, lines, li, current_line, cleaned_lines,
                   ci, columns, sectors, si, from_coords, shipments,
                   skipped, raised, results, call, returned>>

InitCache ==
    /\ impl \in {"stable", "legacy"}
    /\ text = <<>>
    /\ pc = "resolve"
    /\ call = <<>>
    /\ Fresh

\* a location is resolved for the first time
ResolveFirst ==
    /\ pc = "resolve"
    /\ \E loc_str \in Probes :
          \E world \in Worlds(impl, loc_str) : Lookup(loc_str, world, "others")

\* another location is resolved
ResolveOther ==
    /\ pc = "others"
    /\ FillCount < MaxFill
    /\ Lookup(Filler(FillCount + 1), FillerWorld(Filler(FillCount + 1)),
              "others")

\* the first location is resolved again
ResolveAgain ==
    /\ pc = "others"
    /\ \E world \in Worlds(impl, resolutions[1].loc) :
          Lookup(resolutions[1].loc, world, "again")

NextCache ==
    \/ ResolveFirst
    \/ ResolveOther
    \/ ResolveAgain

SpecCache == InitCache /\ [][NextCache]_vars

---------------------------------------------------------------------------
(* _coords_for_location called directly, a few times in one process        *)

\* the most calls of _coords_for_location in one run
MaxCalls == 2

InLocations ==
    {<<>>,
     \* a bare table code
     <<"S", "I", "N">>,
     \* a bare 5-letter table code
     <<"C", "N", "S", "H", "A">>,
     \* a UN/LOCODE whose last three characters are a table code
     <<"S", "G", "S", "I", "N">>,
     \* lower case, padded
     <<SP, "s", "g", "s", "i", "n", SP>>,
     \* a bare code that is not in the table
     <<"X", "Y", "Z">>,
     \* a UN/LOCODE that is not in the table
     <<"U", "S", "L", "A", "X">>,
     \* codes with a facility keyword
     <<"S", "I", "N", SP, "a", "i", "r", "p", "o", "r", "t">>,
     <<"S", "G", "S", "I", "N", SP, "a", "i", "r", "p", "o", "r", "t">>,
     <<"C", "N", "S", "H", "A", SP, "a", "i", "r", "p", "o", "r", "t">>,
     <<"P", "H", "M", "N", "S", SP, "s", "e", "a", "p", "o", "r", "t">>,
     <<"S", "G", "S", "I", "N", SP, "s", "e", "a", "p", "o", "r", "t">>,
     <<"S", "I", "N", SP, "p", "o", "r", "t">>,
     <<"X", "Y", "Z", SP, "a", "i", "r", "p", "o", "r", "t">>,
     \* free text; with a 6-digit postal code; with a ZIP+4 code; with both
     <<"1", "2", "3", SP, "M", "a", "i", "n", SP, "S", "t">>,
     <<"B", "l", "k", SP, "5", SP, "S", "i", "n", "g", "a", "p", "o", "r", "e",
       SP, "1", "2", "3", "4", "5", "6">>,
     <<"N", "Y", SP, "1", "0", "0", "0", "1", "-", "1", "2", "3", "4">>,
     <<"R", "d", SP, "1", "2", "3", "4", "5", "6", SP, "N", "Y", SP,
       "1", "0", "0", "0", "1">>}

InitResolve ==
    /\ impl \in {"stable", "legacy"}
    /\ text = <<>>
    /\ pc = "locate"
    /\ call = <<>>
    /\ Fresh

\* _coords_for_location(loc_str), the providers answering as they will
Locate ==
    /\ pc = "locate"
    /\ Len(resolutions) < MaxCalls
    /\ \E loc_str \in InLocations :
          \E world \in Worlds(impl, loc_str) : Lookup(loc_str, world, "locate")

NextResolve == Locate

SpecResolve == InitResolve /\ [][NextResolve]_vars

---------------------------------------------------------------------------
(* /extract of src/stable/server.py: parse_logistics_data, then            *)
(* normalize_shipment_addresses                                            *)

\* what enrich_addresses_with_llm makes of the LLM's answer: no usable JSON
\* or an echo ("same": every location maps to itself), every location
\* rewritten to an empty string, the airports renamed, or null for the
\* airports and seaports
Rewrite(answer, loc) ==
    CASE answer = "same" -> loc
      [] answer = "blank" -> <<>>
      [] answer = "named" ->
             IF Contains(Lower(loc), Words.airport) THEN <<"H", "u", "b">>
             ELSE loc
      [] answer = "null" ->
             IF Contains(Lower(loc), <<"p", "o", "r", "t">>) THEN None ELSE loc

\* a.lower() raises AttributeError when a is not a str
LowerRaisesOnEmpty(a) == a = None \/ a = <<>>
LowerRaises(a) == a = None

\* the manifests of the /extract requests: two records; the end-to-end
\* example; a header, a record and a record of five columns; nothing
InitExtract ==
    /\ impl \in {"stable", "legacy"}
    /\ text \in
         {Join(<<RecordLine(<<"1">>, Words.A001, Words.Depot, 1, "none"),
                 RecordLine(<<"2">>, Words.S001, Words.NO_PICKUP, 0, "none")>>,
               NL),
          RecordLine(<<"1">>, Words.A001, Words.NO_PICKUP, 1, "none"),
          Join(<<HeaderLine,
                 RecordLine(<<"1">>, Words.A001, Words.Depot, 1, "none"),
                 Join(<<<<"2">>, Words.S001, Words.Depot, Words.SGSIN,
                        Words.KRICN>>, TAB)>>, NL),
          <<>>}
    /\ pc = "start"
    /\ call = <<>>
    /\ Fresh

\* all_locs: every from and to of every sector;
\* mapping = enrich_addresses_with_llm(list(all_locs)), which calls the LLM
\* unless there is no location (src/stable/server.py only)
Enrich ==
    /\ pc = "parsed"
    /\ impl = "stable"
    /\ LET all_locs ==
               UNION {{shipments[k].sectors[i].from :
                          i \in DOMAIN shipments[k].sectors}
                      \cup {shipments[k].sectors[i].to :
                                i \in DOMAIN shipments[k].sectors} :
                         k \in DOMAIN shipments}
       IN  /\ \E answer \in {"same", "blank", "named", "null"} :
                  mapping' = [loc \in all_locs |-> Rewrite(answer, loc)]
           /\ llm_calls' = IF all_locs = {} THEN llm_calls
                           ELSE Append(llm_calls, "enrich")
    /\ ci' = 1
    /\ si' = 1
    /\ pc' = IF shipments = <<>> THEN "normalized" ELSE "normalize_from"
    /\ UNCHANGED <<impl, threads, response, text, lines, li, current_line,
                   cleaned_lines, columns, sectors, from_coords, shipments,
                   skipped, raised, query_cache, google_cache, calls,
                   resolutions, results, call, returned>>

\* _distance_between(s["from"], s["to"]): ca = _coords_for_location(a)
GotNormalizedFrom(res) ==
    /\ from_coords' = res.r
    /\ Resolved(mapping[shipments[ci].sectors[si].from], res)

\* s["from"] = mapping.get(...); s["to"] = mapping.get(...); then the
\* first half of _distance_between
NormalizeFrom ==
    /\ pc = "normalize_from"
    /\ shipments' = [shipments EXCEPT ![ci].sectors[si] =
                        [@ EXCEPT !.from = mapping[@], !.to = mapping[@]]]
    /\ \E world \in Worlds(impl, mapping[shipments[ci].sectors[si].from]) :
          GotNormalizedFrom(
              _coords_for_location(impl, geo, world,
                                   mapping[shipments[ci].sectors[si].from]))
    /\ pc' = "normalize_to"
    /\ UNCHANGED <<impl, threads, llm_calls, response, mapping, text, lines, li, current_line, cleaned_lines,
                   ci, columns, sectors, si, skipped, raised, results, call,
                   returned>>

\* cb = _coords_for_location(b); the warning of an unresolved a, which
\* raises when a is not a str; s["distance_km"] = the distance; next sector
GotNormalizedTo(res) ==
    /\ Resolved(shipments[ci].sectors[si].to, res)
    /\ from_coords' = NoCoords
    /\ IF from_coords = NoCoords /\ LowerRaises(shipments[ci].sectors[si].from)
       THEN /\ raised' = TRUE
            /\ pc' = "raised"
            /\ UNCHANGED <<shipments, ci, si>>
       ELSE /\ shipments' =
                  [shipments EXCEPT ![ci].sectors[si] =
                      WithDistance(@, DistanceOf(impl, from_coords, res.r))]
            /\ raised' = raised
            /\ IF si < Len(shipments[ci].sectors)
               THEN si' = si + 1 /\ ci' = ci /\ pc' = "normalize_from"
               ELSE /\ si' = 1
                    /\ ci' = ci + 1
                    /\ pc' = IF ci < Len(shipments) THEN "normalize_from"
                             ELSE "normalized"

NormalizeTo ==
    /\ pc = "normalize_to"
    /\ \E world \in Worlds(impl, shipments[ci].sectors[si].to) :
          GotNormalizedTo(
              _coords_for_location(impl, geo, world,
                                   shipments[ci].sectors[si].to))
    /\ UNCHANGED <<impl, threads, llm_calls, response, mapping, text, lines, li, current_line, cleaned_lines,
                   columns, sectors, skipped, results, call, returned>>

\* the response of extract_info for what call_llm returned: the text of
\* the LLM, "" on an error or "TIMEOUT"
Answer(raw_output) ==
    IF raw_output = ""
    THEN [error |-> "LLM returned empty response",
          parsed_shipments |-> shipments]
    ELSE IF raw_output = "TIMEOUT"
    THEN [analysis |-> "fallback", parsed_shipments |-> shipments,
          notes |-> "LLM timed out, using fallback analysis"]
    ELSE [analysis |-> raw_output, parsed_shipments |-> shipments]

\* extract_info after the parse (and the normalization of
\* src/stable/server.py): the empty result, or the LLM's analysis
Respond ==
    /\ pc = IF impl = "stable" THEN "normalized" ELSE "parsed"
    /\ IF shipments = <<>>
       THEN /\ response' =
                  <<[error |-> "No valid shipment data found",
                     parsed_shipments |-> <<>>,
                     notes |-> "Could not parse any shipment data from input"]>>
            /\ llm_calls' = llm_calls
       ELSE /\ llm_calls' = Append(llm_calls, "analysis")
            /\ \E raw_output \in {"analysis", "", "TIMEOUT"} :
                   response' = <<Answer(raw_output)>>
    /\ pc' = "responded"
    /\ UNCHANGED <<impl, threads, mapping, text, lines, li, current_line,
                   cleaned_lines, ci, columns, sectors, si, from_coords,
                   shipments, skipped, raised, query_cache, google_cache,
                   calls, resolutions, results, call, returned>>

NextExtract ==
    \/ Receive
    \/ FoldLine
    \/ FoldEnd
    \/ ParseRecord
    \/ ResolveFrom
    \/ ResolveTo
    \/ AppendShipment
    \/ ParseReturn
    \/ Enrich
    \/ NormalizeFrom
    \/ NormalizeTo
    \/ Respond

SpecExtract == InitExtract /\ [][NextExtract]_vars

---------------------------------------------------------------------------
(* POST /calculate with shipments of the client's making                   *)

\* the most sectors a shipment of a /calculate request carries
MaxSectors == 2

\* the sectors of the request: every mode, with distance_km missing, None,
\* 0, 1500.0 or 4611.8 km
InSectors ==
    [mode : {"TRUCK", "AIR", "SEA", "RAIL"}]
        \cup [mode : {"TRUCK", "AIR", "SEA", "RAIL"},
              distance_km : {NoDistance, 0, 15000, 46118}]

InitCalculate ==
    /\ impl = "stable"
    /\ text = <<>>
    /\ pc = "parsed"
    /\ call = <<>>
    /\ lines = <<>>
    /\ li = 1
    /\ current_line = <<>>
    /\ cleaned_lines = <<>>
    /\ ci = 1
    /\ columns = <<>>
    /\ sectors = <<>>
    /\ si = 1
    /\ from_coords = NoCoords
    /\ \E n \in 0..MaxSectors :
          \E secs \in [1..n -> InSectors] :
              shipments = <<[ref_no |-> Words.A001, sectors |-> secs]>>
    /\ skipped = <<>>
    /\ raised = FALSE
    /\ query_cache = <<>>
    /\ google_cache = <<>>
    /\ calls = <<>>
    /\ resolutions = <<>>
    /\ mapping = <<>>
    /\ llm_calls = <<>>
    /\ threads = <<>>
    /\ response = <<>>
    /\ results = <<>>
    /\ returned = <<>>

NextCalculate == Calculate

SpecCalculate == InitCalculate /\ [][NextCalculate]_vars

---------------------------------------------------------------------------
(* parse_logistics_data on manifests of a few physical lines               *)

\* the most physical lines of such a manifest
MaxLines == 3

\* the physical lines: a record; a record of six columns whose delivery
\* address is empty; a record whose delivery address holds a header token;
\* a continuation line; a blank line; the header; a record of five columns
FoldLines ==
    {RecordLine(<<"1">>, Words.S001, Words.NO_PICKUP, 0, "none"),
     Join(<<<<"2">>, Words.S001, Words.n_a, Words.SGSIN, Words.KRICN, <<>>>>,
          TAB),
     Join(<<<<"3">>, Words.S001, Words.n_a, Words.SGSIN, Words.KRICN,
            Words.Origin \o <<SP, "R", "d">>>>, TAB),
     <<"L", "e", "v", "e", "l", SP, "2">>,
     <<>>,
     HeaderLine,
     Join(<<<<"4">>, Words.S001, Words.n_a, Words.SGSIN, Words.KRICN>>, TAB)}

InitFold ==
    /\ impl \in {"stable", "legacy"}
    /\ \E n \in 1..MaxLines :
          \E ls \in [1..n -> FoldLines] : text = Join(ls, NL)
    /\ pc = "start"
    /\ call = <<>>
    /\ Fresh

NextFold ==
    \/ Receive
    \/ FoldLine
    \/ FoldEnd
    \/ ParseRecord
    \/ ResolveFrom
    \/ ResolveTo
    \/ AppendShipment
    \/ ParseReturn

SpecFold == InitFold /\ [][NextFold]_vars

---------------------------------------------------------------------------
(* Two requests served at once: FastAPI runs the def handlers in threads,  *)
(* and each thread calls _geocode_query with the same query                *)

Threads == {1, 2}

InitThreads ==
    /\ impl = "stable"
    /\ text = Words.MainSt
    /\ pc = "threads"
    /\ call = <<>>
    /\ lines = <<>>
    /\ li = 1
    /\ current_line = <<>>
    /\ cleaned_lines = <<>>
    /\ ci = 1
    /\ columns = <<>>
    /\ sectors = <<>>
    /\ si = 1
    /\ from_coords = NoCoords
    /\ shipments = <<>>
    /\ skipped = <<>>
    /\ raised = FALSE
    /\ query_cache = <<>>
    /\ google_cache = <<>>
    /\ calls = <<>>
    /\ resolutions = <<>>
    /\ mapping = <<>>
    /\ llm_calls = <<>>
    /\ response = <<>>
    /\ results = <<>>
    /\ returned = <<>>
    /\ threads = [t \in Threads |-> [at |-> "lookup", r |-> NoCoords]]

\* the wrapper of lru_cache looks the key up: a hit returns the cached value
CacheLookup ==
    /\ pc = "threads"
    /\ \E t \in Threads :
          /\ threads[t].at = "lookup"
          /\ IF CacheIndex(query_cache, text) # 0
             THEN /\ threads' = [threads EXCEPT ![t] =
                        [at |-> "done",
                         r |-> query_cache[CacheIndex(query_cache, text)].r]]
                  /\ query_cache' =
                         LruTouch(query_cache, CacheIndex(query_cache, text))
             ELSE /\ threads' = [threads EXCEPT ![t].at = "nominatim"]
                  /\ query_cache' = query_cache
    /\ UNCHANGED <<impl, llm_calls, response, mapping, text, pc, lines, li,
                   current_line, cleaned_lines, ci, columns, sectors, si,
                   from_coords, shipments, skipped, raised, google_cache,
                   calls, resolutions, results, call, returned>>

\* geocoder.geocode(query, timeout=10) and the sleep
NominatimCall ==
    /\ pc = "threads"
    /\ \E t \in Threads, n \in NominatimOutcomes :
          /\ threads[t].at = "nominatim"
          /\ calls' = Asked(geo, text, n).calls
          /\ threads' = [threads EXCEPT ![t] =
                 IF n \notin {"empty", "raise"} THEN [at |-> "store", r |-> n]
                 ELSE [at |-> "google_lookup", r |-> NoCoords]]
    /\ UNCHANGED <<impl, llm_calls, response, mapping, text, pc, lines, li,
                   current_line, cleaned_lines, ci, columns, sectors, si,
                   from_coords, shipments, skipped, raised, query_cache,
                   google_cache, resolutions, results, call, returned>>

\* _geocode_google(query): the wrapper of its lru_cache looks the key up
GoogleCacheLookup ==
    /\ pc = "threads"
    /\ \E t \in Threads :
          /\ threads[t].at = "google_lookup"
          /\ IF CacheIndex(google_cache, text) # 0
             THEN /\ threads' = [threads EXCEPT ![t] =
                        [at |-> "store",
                         r |-> google_cache[CacheIndex(google_cache, text)].r]]
                  /\ google_cache' =
                         LruTouch(google_cache, CacheIndex(google_cache, text))
             ELSE /\ threads' = [threads EXCEPT ![t].at = "google"]
                  /\ google_cache' = google_cache
    /\ UNCHANGED <<impl, llm_calls, response, mapping, text, pc, lines, li,
                   current_line, cleaned_lines, ci, columns, sectors, si,
                   from_coords, shipments, skipped, raised, query_cache,
                   calls, resolutions, results, call, returned>>

\* requests.get(...) of _geocode_google
GoogleCall ==
    /\ pc = "threads"
    /\ \E t \in Threads, g \in GoogleOutcomes :
          /\ threads[t].at = "google"
          /\ calls' = Append(calls, [p |-> "google", q |-> text])
          /\ threads' = [threads EXCEPT ![t] = [at |-> "google_store", r |-> g]]
    /\ UNCHANGED <<impl, llm_calls, response, mapping, text, pc, lines, li,
                   current_line, cleaned_lines, ci, columns, sectors, si,
                   from_coords, shipments, skipped, raised, query_cache,
                   google_cache, resolutions, results, call, returned>>

\* the wrapper stores the result unless the key was stored meanwhile
GoogleCacheStore ==
    /\ pc = "threads"
    /\ \E t \in Threads :
          /\ threads[t].at = "google_store"
          /\ google_cache' =
                 IF CacheIndex(google_cache, text) # 0 THEN google_cache
                 ELSE LruPut(google_cache, [q |-> text, r |-> threads[t].r])
          /\ threads' = [threads EXCEPT ![t].at = "store"]
    /\ UNCHANGED <<impl, llm_calls, response, mapping, text, pc, lines, li,
                   current_line, cleaned_lines, ci, columns, sectors, si,
                   from_coords, shipments, skipped, raised, query_cache,
                   calls, resolutions, results, call, returned>>

\* the wrapper of _geocode_query stores the result unless the key was
\* stored meanwhile, and returns the result of its own call
CacheStore ==
    /\ pc = "threads"
    /\ \E t \in Threads :
          /\ threads[t].at = "store"
          /\ query_cache' =
                 IF CacheIndex(query_cache, text) # 0 THEN query_cache
                 ELSE LruPut(query_cache, [q |-> text, r |-> threads[t].r])
          /\ threads' = [threads EXCEPT ![t].at = "done"]
    /\ UNCHANGED <<impl, llm_calls, response, mapping, text, pc, lines, li,
                   current_line, cleaned_lines, ci, columns, sectors, si,
                   from_coords, shipments, skipped, raised, google_cache,
                   calls, resolutions, results, call, returned>>

NextThreads ==
    \/ CacheLookup
    \/ NominatimCall
    \/ GoogleCacheLookup
    \/ GoogleCall
    \/ GoogleCacheStore
    \/ CacheStore

SpecThreads == InitThreads /\ [][NextThreads]_vars

---------------------------------------------------------------------------
(* The dashboard (src/app.py, src/stable/app.py): the textarea, prefilled  *)
(* from the records of an uploaded workbook, is preprocessed and posted    *)
(* to /extract                                                             *)

\* the most records of an uploaded workbook
MaxRecords == 2

\* _compose_prefill_lines(records), with _format_date and _clean_value of
\* str arguments; a date with '-' is zero-padded YYYY-MM-DD
_compose_prefill_lines(records) ==
    LET RECURSIVE CollapseBlanks(_)
        \* re.sub(r'[ \t]+', ' ', notes)
        CollapseBlanks(s) ==
            IF s = <<>> THEN <<>>
            ELSE IF Head(s) \in {SP, TAB}
            THEN IF Len(s) > 1 /\ s[2] \in {SP, TAB}
                 THEN CollapseBlanks(Tail(s))
                 ELSE <<SP>> \o CollapseBlanks(Tail(s))
            ELSE <<Head(s)>> \o CollapseBlanks(Tail(s))
        _format_date(raw_date) ==
            IF raw_date = <<>> \/ Lower(raw_date) = <<"n", "a", "n">> THEN <<>>
            ELSE IF "-" \in {FirstToken(raw_date)[i] :
                                i \in DOMAIN FirstToken(raw_date)}
            THEN SubSeq(FirstToken(raw_date), 9, 10) \o <<"/">>
                     \o SubSeq(FirstToken(raw_date), 6, 7) \o <<"/">>
                     \o SubSeq(FirstToken(raw_date), 1, 4)
            ELSE FirstToken(raw_date)
        _clean_value(value) ==
            IF value = <<>>
                   \/ Lower(value) \in {<<"n", "a", "n">>, <<"n", "a", "t">>,
                                        <<"n", "o", "n", "e">>,
                                        <<"n", "u", "l", "l">>}
            THEN <<>> ELSE value
        RECURSIVE SegmentParts(_)
        SegmentParts(segs) ==
            IF segs = <<>> THEN <<>>
            ELSE <<_format_date(segs[1].flight_date),
                   _clean_value(segs[1].flight_number),
                   _clean_value(segs[1].from), _clean_value(segs[1].to)>>
                     \o SegmentParts(Tail(segs))
        line(i) ==
            Join(<<<<DigitChar(i)>>, records[i].reference, Words.NO_PICKUP,
                   records[i].origin, records[i].destination,
                   Quoted(CollapseBlanks(
                       SelectSeq(Strip(records[i].notes),
                                 LAMBDA c : c \notin {DQ, "'"})))>>
                     \o (IF StartsWith(records[i].reference, <<"A">>)
                         THEN SegmentParts(records[i].segments) ELSE <<>>),
                 TAB)
    IN  Join([i \in DOMAIN records |-> line(i)], NL)

\* re.sub(r'"\s*\n\s*', ' ', user_input), then the lines of splitlines()
\* that are not blank, joined with '\n'
Preprocess(user_input) ==
    LET s == user_input
        ws(i) == s[i] \in Whitespace
        \* the ends of the whitespace run around position j
        before(j) == SetMax({k \in 0..j : k = 0 \/ ~ws(k)})
        after(j) == SetMin({k \in j..(Len(s) + 1) : k > Len(s) \/ ~ws(k)})
        hasNL(a, b) == \E k \in (a + 1)..(b - 1) : s[k] = NL
        \* a quote whose whitespace run holds a line break, and that run
        matched(i) == s[i] = DQ /\ hasNL(i, after(i + 1))
        consumed(j) ==
            /\ ws(j)
            /\ before(j) > 0
            /\ s[before(j)] = DQ
            /\ hasNL(before(j), after(j))
        joined ==
            SelectSeq([i \in DOMAIN s |->
                          IF matched(i) THEN SP
                          ELSE IF consumed(i) THEN ""
                          ELSE IF s[i] = CR THEN NL ELSE s[i]],
                      LAMBDA c : c # "")
    IN  Join(SelectSeq(SplitOn(joined, NL), LAMBDA l : Strip(l) # <<>>), NL)

\* the textarea: the prefill of up to MaxRecords records of a workbook (a
\* SEA record, an AIR record with one segment, a SEA record with a two-line
\* address, an AIR record whose segment cells are missing), or a manifest
\* as typed: an AIR record, records with CRLF line ends and a blank line
InitDashboard ==
    /\ impl \in {"stable", "legacy"}
    /\ text = <<>>
    /\ pc = "typed"
    /\ LET base == [reference |-> Words.S001, origin |-> Words.SGSIN,
                    destination |-> Words.KRICN, notes |-> Words.MainSt,
                    segments |-> <<>>]
           seg == [flight_date |-> <<"2", "0", "2", "5", "-", "0", "7", "-",
                                     "0", "3">>,
                   flight_number |-> Words.SQ600, from |-> Words.SGSIN,
                   to |-> Words.KRICN]
           InRecords ==
               {base,
                [base EXCEPT !.reference = Words.A001, !.segments = <<seg>>],
                [base EXCEPT !.notes = <<"L", "e", "v", "e", "l", SP, SP, "2",
                                         NL>> \o Words.MainSt \o <<SP>>],
                [base EXCEPT !.reference = Words.A001,
                             !.segments = <<[seg EXCEPT !.flight_date = <<>>,
                                                 !.to = <<"n", "a", "n">>]>>]}
       IN  \/ \E n \in 1..MaxRecords :
                 \E records \in [1..n -> InRecords] :
                     call = [user_input |-> _compose_prefill_lines(records)]
           \/ call \in [user_input :
                  {RecordLine(<<"1">>, Words.A001, Words.Depot, 1, "none"),
                   Join(<<RecordLine(<<"1">>, Words.A001, Words.NO_PICKUP, 1,
                                     "none") \o <<CR>>,
                          <<>>,
                          RecordLine(<<"2">>, Words.S001, Words.Depot, 0,
                                     "none") \o <<CR>>>>, NL),
                   <<SP, NL>>}]
    /\ Fresh

\* the "Send to LLM" button: warn about an empty textarea, else preprocess
\* the input and post it to /extract
Send ==
    /\ pc = "typed"
    /\ IF Strip(call.user_input) = <<>>
       THEN text' = text /\ pc' = "warned"
       ELSE text' = Preprocess(call.user_input) /\ pc' = "start"
    /\ UNCHANGED <<impl, threads, llm_calls, response, mapping, lines, li,
                   current_line, cleaned_lines, ci, columns, sectors, si,
                   from_coords, shipments, skipped, raised, query_cache,
                   google_cache, calls, resolutions, results, call, returned>>

NextDashboard ==
    \/ Send
    \/ Receive
    \/ FoldLine
    \/ FoldEnd
    \/ ParseRecord
    \/ ResolveFrom
    \/ ResolveTo
    \/ AppendShipment
    \/ ParseReturn

SpecDashboard == InitDashboard /\ [][NextDashboard]_vars

---------------------------------------------------------------------------
(* The workbook reader (src/excel_to_records.py): one row of the flattened *)
(* sheet becomes one record with its sector segments                       *)

\* a missing value of pandas: the float nan, which is true in a condition
\* and whose str() is 'nan'
NaN == <<"NaN">>

\* the band names of the three sector blocks, in sheet order
SECTOR_BLOCKS ==
    <<<<"1", "s", "t", SP, "s", "e", "c", "t", "o", "r">>,
      <<"2", "n", "d", SP, "S", "e", "c", "t", "o", "r">>,
      <<"3", "r", "d", SP, "S", "e", "c", "t", "o", "r">>>>

\* str(value or "").strip() or None
StrippedOrNone(value) ==
    LET chosen == IF value = None \/ value = <<>> THEN <<>> ELSE value
        stripped == Strip(IF chosen = NaN THEN <<"n", "a", "n">> ELSE chosen)
    IN  IF stripped = <<>> THEN None ELSE stripped

\* _collect_sector_segments(row); row[k] holds the four cells of block k
_collect_sector_segments(row) ==
    LET seg(k) == [flight_date |-> row[k].flight_date,
                   flight_number |-> row[k].flight_number,
                   from |-> StrippedOrNone(row[k].from),
                   to |-> StrippedOrNone(row[k].to)]
        RECURSIVE Collect(_)
        Collect(k) ==
            IF k > Len(SECTOR_BLOCKS) THEN <<>>
            ELSE (IF seg(k).from # None /\ seg(k).to # None
                  THEN <<seg(k)>> ELSE <<>>) \o Collect(k + 1)
    IN  Collect(1)

\* the cells of a sheet read with dtype=object: text, padded text, an empty
\* string, blanks, None, and NaN for a cell without a value
InCells == {Words.SGSIN, <<SP>> \o Words.KRICN, <<>>, <<SP>>, None, NaN}

\* a row of the sheet: 'Ref No' and the sector blocks, each with its own
\* flight number
InitReadRow ==
    /\ impl = "stable"
    /\ text = <<>>
    /\ pc = "row"
    /\ \E ref \in {Words.A001, <<>>} :
          \E ends \in [1..Len(SECTOR_BLOCKS) -> [from : InCells \ {<<SP>>},
                                                 to : InCells \ {Words.SGSIN}]] :
              call = [ref_no |-> ref,
                      blocks |-> [k \in 1..Len(SECTOR_BLOCKS) |->
                                     [flight_date |-> Words.date1,
                                      flight_number |->
                                          <<"S", "Q", DigitChar(k)>>,
                                      from |-> ends[k].from,
                                      to |-> ends[k].to]]]
    /\ Fresh

\* the body of "for _, row in df.iterrows()": a row without a reference is
\* skipped, any other row is appended as a record
ReadRow ==
    /\ pc = "row"
    /\ returned' = IF StrippedOrNone(call.ref_no) = None THEN <<>>
                   ELSE <<[reference |-> StrippedOrNone(call.ref_no),
                           segments |-> _collect_sector_segments(call.blocks)]>>
    /\ pc' = "read"
    /\ UNCHANGED <<impl, threads, llm_calls, response, mapping, text, lines,
                   li, current_line, cleaned_lines, ci, columns, sectors, si,
                   from_coords, shipments, skipped, raised, query_cache,
                   google_cache, calls, resolutions, results, call>>

NextReadRow == ReadRow

SpecReadRow == InitReadRow /\ [][NextReadRow]_vars

---------------------------------------------------------------------------
(* The claims                                                              *)

\* a shipment has been appended; columns and sectors are still those of
\* the record it came from
Appended == shipments # <<>> /\ pc \in {"records", "parsed", "calculated"}
LastShipment == shipments[Len(shipments)]

\* the no-pickup words of the specification
SentinelWords ==
    {<<>>, <<"N", "O", SP, "P", "I", "C", "K", "U", "P">>, <<"N", "/", "A">>,
     <<"N", "A">>, <<"N", "O", "N", "E">>}
RealPickup(p) == Upper(Strip(p)) \notin SentinelWords

\* N: the complete 4-column groups from column 7 on whose dates match, up
\* to the first date that does not
ValidQuadruples ==
    LET ok(k) == /\ 6 + 4 * k <= Len(columns)
                 /\ \A j \in 1..k : DateMatch(columns[3 + 4 * j])
    IN  SetMax({k \in 0..Len(columns) : ok(k)})

\* N+2 sectors numbered 1..N+2, TRUCK from pickup_from first, TRUCK to
\* delivery_to last
TruckLegsAroundQuadruples ==
    LET s == LastShipment.sectors
        n == ValidQuadruples
    IN  /\ Len(s) = n + 2
        /\ \A i \in 1..Len(s) : s[i].sector = i
        /\ s[1].mode = "TRUCK"
        /\ s[1].from = LastShipment.pickup_from
        /\ \A i \in 2..(n + 1) : s[i].mode = "AIR"
        /\ s[n + 2].mode = "TRUCK"
        /\ s[n + 2].to = LastShipment.delivery_to

\* C1 as stated: every record with N valid quadruples and a real pickup
\* gives N+2 sectors numbered 1..N+2, TRUCK from pickup_from first and TRUCK
\* to delivery_to last.
C1_AnyReference ==
    Appended /\ RealPickup(LastShipment.pickup_from)
        => TruckLegsAroundQuadruples

\* C1 amended: a record that is sequenced as AIR (its reference starts with
\* 'A'; src/server.py sequences every record as AIR), with N valid
\* quadruples and a real pickup, gives N+2 sectors numbered 1..N+2, TRUCK
\* from pickup_from first, the N AIR legs, and TRUCK to delivery_to last.
C1_AirReference ==
    /\ Appended
    /\ RealPickup(LastShipment.pickup_from)
    /\ (impl = "legacy" \/ StartsWith(LastShipment.ref_no, <<"A">>))
    => TruckLegsAroundQuadruples

\* two valid quadruples, then a group with a date that does not match
C1_Witness ==
    /\ Appended
    /\ impl = "stable"
    /\ LastShipment.ref_no = Words.A001
    /\ LastShipment.pickup_from = Words.Depot
    /\ ValidQuadruples = 2
    /\ Len(columns) = 22
    /\ Len(LastShipment.sectors) = 4

ModeCount(s, mode) == Cardinality({i \in DOMAIN s : s[i].mode = mode})

C3_NoInitialTruck ==
    Appended /\ ~RealPickup(LastShipment.pickup_from)
        => LET s == LastShipment.sectors
           IN  \A i \in 1..(Len(s) - 1) : s[i].mode # "TRUCK"

\* a lower-case sentinel on a SEA record
C3_Witness ==
    /\ Appended
    /\ impl = "stable"
    /\ LastShipment.pickup_from = Words.n_a
    /\ LastShipment.transport_type = "SEA"
    /\ Len(LastShipment.sectors) = 2

\* the record of the end-to-end example
SampleText == RecordLine(<<"1">>, Words.A001, Words.NO_PICKUP, 1, "none")

\* the example calculated with weight_kg = 400, air_subtype = belly and the
\* default road subtype
SampleCalculated ==
    /\ pc = "calculated"
    /\ text = SampleText
    /\ results.weight_100kg = 4
    /\ results.air_subtype = "belly"
    /\ results.road_subtype = "heavy_avg"

\* one AIR shipment A001 of two sectors, AIR SGSIN -> KRICN and TRUCK
\* 'KRICN airport' -> '123 Main St'; an unresolved leg has distance 0
SampleParsed ==
    /\ Len(shipments) = 1
    /\ shipments[1].ref_no = Words.A001
    /\ shipments[1].transport_type = "AIR"
    /\ LET s == shipments[1].sectors
       IN  /\ Len(s) = 2
           /\ s[1].mode = "AIR" /\ s[1].from = Words.SGSIN /\ s[1].to = Words.KRICN
           /\ s[2].mode = "TRUCK" /\ s[2].from = Words.KRICN \o Words.airport
           /\ s[2].to = Words.MainSt
           /\ Len(resolutions) = 4
           /\ (resolutions[4].r = NoCoords => s[2].distance_km = 0)

\* total_emissions_kg = 0.4 x d1 x air + 0.4 x d2 x road, in units of 1e-5 kg
SampleTotal(air_factor, road_factor) ==
    LET s == shipments[1].sectors
    IN  /\ Len(results.emission_results) = 1
        /\ results.emission_results[1].total_emissions_kg =
               4 * s[1].distance_km * air_factor
                   + 4 * s[2].distance_km * road_factor

\* C4 as stated: the example parses to the two sectors and the total is
\* 0.4 x distance(SGSIN,KRICN) x 0.98 + 0.4 x distance('KRICN airport',
\* '123 Main St') x 0.08.
C4_ShortHaulFactor ==
    SampleCalculated => SampleParsed /\ SampleTotal(980, 80)

\* C4 amended: the example parses to the two sectors and the total is
\* 0.4 x distance(SGSIN,KRICN) x 0.77 + 0.4 x distance('KRICN airport',
\* '123 Main St') x 0.08: SGSIN -> KRICN is 4611.8 km, above 1500 km, so the
\* long-haul belly factor applies; an unresolved leg's distance term is 0.
C4_LongHaulFactor ==
    SampleCalculated
        => /\ SampleParsed
           /\ shipments[1].sectors[1].distance_km = 46118
           /\ SampleTotal(770, 80)

\* the example calculated, with the delivery address resolved
C4_Witness ==
    /\ SampleCalculated
    /\ shipments[1].sectors[2].distance_km > 0
    /\ results.emission_results[1].total_emissions_kg > 4 * 46118 * 770

\* C5: a location string resolved again gives the coordinates it gave
\* before, and the later resolution makes no external provider call,
\* whatever was resolved in between.
C5_ResolvedAgainFromCache ==
    Len(resolutions) >= 2
        => LET again == resolutions[Len(resolutions)]
           IN  \A i \in 1..(Len(resolutions) - 1) :
                   resolutions[i].loc = again.loc
                       => resolutions[i].r = again.r /\ again.external = <<>>

\* C6: for AIR and belly, every distance up to 1500 km, 1500 km itself and
\* a None distance included, selects 0.98, and every distance above 1500 km
\* selects 0.77; the same boundary selects freighter_short or
\* freighter_long for freighter.
C6_InclusiveBoundary ==
    returned # <<>> /\ call.mode = "AIR" /\ call.subtype \in {"belly", "freighter"}
        => LET short == \/ call.distance_km = NoDistance
                        \/ call.distance_km <= 15000
           IN  returned[1] =
                   IF call.subtype = "belly"
                   THEN (IF short THEN 980 ELSE 770)
                   ELSE (IF short THEN EF_TABLE.air.freighter_short
                         ELSE EF_TABLE.air.freighter_long)

\* AIR, belly, 1500 km exactly
C6_Witness ==
    /\ returned = <<980>>
    /\ call = [mode |-> "AIR", subtype |-> "belly", distance_km |-> 15000]

\* the logical records that tokenize to at least six columns
SixColumnRecords ==
    {i \in DOMAIN cleaned_lines :
        LET row == CsvFirstRow(cleaned_lines[i])
        IN  row.exc = "" /\ Len(row.fields) >= 6}

\* C7: parse_logistics_data never raises; a record of fewer than 6 columns
\* gives no shipment, so the shipments returned are as many as the records
\* of at least 6 columns, and none when there is no such record.
C7_NeverRaises ==
    /\ ~raised
    /\ pc # "raised"
    /\ pc \in {"parsed", "calculated"}
           => /\ Len(shipments) = Cardinality(SixColumnRecords)
              /\ \A i \in DOMAIN skipped :
                     skipped[i].record \notin SixColumnRecords

\* a record the tokenizer rejects and a parse that still returns
C7_Witness ==
    /\ pc = "parsed"
    /\ \E i \in DOMAIN skipped : skipped[i].why = "csv.Error"
    /\ Len(shipments) = 1

\* C8: in every shipment the sector indices are exactly 1..N in list order,
\* for every transport type, pickup and number of base legs.
C8_ContiguousIndices ==
    Appended
        => \A i \in DOMAIN LastShipment.sectors :
               LastShipment.sectors[i].sector = i

\* a pickup leg inserted before two AIR legs
C8_Witness ==
    /\ Appended
    /\ LastShipment.pickup_from = Words.Depot
    /\ Len(LastShipment.sectors) = 4
    /\ LastShipment.sectors[2].mode = "AIR"
    /\ LastShipment.sectors[4].sector = 4

\* C9 as stated: sector 1's from is pickup_from when there is a real
\* pickup, and otherwise the origin facility (the origin, or its airport or
\* seaport).
C9_PickupOrOrigin ==
    Appended
        => LET first == LastShipment.sectors[1]
               origin == LastShipment.origin
           IN  IF RealPickup(LastShipment.pickup_from)
               THEN first.from = LastShipment.pickup_from
               ELSE first.from \in {origin, origin \o Words.airport,
                                    origin \o Words.seaport}

\* C9 amended: sector 1's from is pickup_from when there is a real pickup;
\* otherwise it is the from of the first base leg (the from column of the
\* first AIR quadruple, the origin for a SEA leg), and when the shipment has
\* no base leg it is the '<destination> airport' or '<destination> seaport'
\* of the terminal TRUCK sector.
C9_PickupOrFirstLeg ==
    Appended
        => LET s == LastShipment.sectors
               destination == LastShipment.destination
           IN  IF RealPickup(LastShipment.pickup_from)
               THEN s[1].from = LastShipment.pickup_from
               ELSE IF Len(s) = 1
               THEN s[1].from \in {destination \o Words.airport,
                                   destination \o Words.seaport}
               ELSE \/ s[1].mode = "AIR" /\ s[1].from = columns[9]
                    \/ s[1].mode = "SEA" /\ s[1].from = LastShipment.origin

\* no pickup and no base leg: the terminal TRUCK sector is sector 1
C9_Witness ==
    /\ Appended
    /\ ~RealPickup(LastShipment.pickup_from)
    /\ Len(LastShipment.sectors) = 1
    /\ LastShipment.sectors[1].from = Words.KRICN \o Words.seaport

\* C10: every shipment ends with a TRUCK sector from '<destination>
\* airport' or '<destination> seaport' to delivery_to, for every transport
\* type and also when it is the only sector.
C10_TerminalTruck ==
    Appended
        => LET s == LastShipment.sectors
               last == s[Len(s)]
               destination == LastShipment.destination
           IN  /\ last.mode = "TRUCK"
               /\ last.from \in {destination \o Words.airport,
                                 destination \o Words.seaport}
               /\ last.to = LastShipment.delivery_to

\* an UNKNOWN shipment without pickup: the terminal sector alone
C10_Witness ==
    /\ Appended
    /\ LastShipment.transport_type = "UNKNOWN"
    /\ Len(LastShipment.sectors) = 1
    /\ LastShipment.sectors[1].to = Words.MainSt

\* C11 as stated: in every shipment no AIR or SEA sector is at position 1
\* and none is at position N.
C11_NeverFirstNorLast ==
    Appended
        => LET s == LastShipment.sectors
           IN  /\ s[1].mode \notin {"AIR", "SEA"}
               /\ s[Len(s)].mode \notin {"AIR", "SEA"}

\* C11 amended: in every shipment no AIR or SEA sector is at position N,
\* and none is at position 1 when pickup_from is a real pickup; with a
\* no-pickup sentinel the first base leg, when there is one, is sector 1.
C11_NeverLastNorAfterPickup ==
    Appended
        => LET s == LastShipment.sectors
           IN  /\ s[Len(s)].mode \notin {"AIR", "SEA"}
               /\ RealPickup(LastShipment.pickup_from)
                      => s[1].mode \notin {"AIR", "SEA"}

\* a real pickup before two AIR legs, and the terminal TRUCK sector
C11_Witness ==
    /\ Appended
    /\ RealPickup(LastShipment.pickup_from)
    /\ LastShipment.transport_type = "AIR"
    /\ Len(LastShipment.sectors) = 4
    /\ LastShipment.sectors[1].mode = "TRUCK"
    /\ LastShipment.sectors[3].mode = "AIR"
    /\ LastShipment.sectors[4].mode = "TRUCK"

\* C12: a record whose reference starts with neither 'A' nor 'S' (an empty
\* reference included) is classified UNKNOWN and has only TRUCK sectors:
\* the pickup TRUCK sector when there is a real pickup, then the terminal
\* TRUCK sector, and no AIR or SEA sector whatever quadruples follow.
C12_UnknownOnlyTrucks ==
    /\ Appended
    /\ ~StartsWith(LastShipment.ref_no, <<"A">>)
    /\ ~StartsWith(LastShipment.ref_no, <<"S">>)
    => LET s == LastShipment.sectors
           k == IF RealPickup(LastShipment.pickup_from) THEN 1 ELSE 0
       IN  /\ LastShipment.transport_type = "UNKNOWN"
           /\ Len(s) = k + 1
           /\ \A i \in DOMAIN s : s[i].mode = "TRUCK"

\* the calls of _coords_for_location made so far, the last of them
Located == resolutions # <<>> /\ pc = "locate"
LastResolution == resolutions[Len(resolutions)]

\* the table entry a location string stands for: a key of the table or a
\* 5-character UN/LOCODE whose last three characters are a key, alone or
\* followed by ' airport', ' port' or ' seaport'; NoCoords for other strings
TableEntryFor(which, loc_str) ==
    LET s == Strip(loc_str)
        code == IF s = <<>> THEN <<>> ELSE FirstToken(s)
        key == IF InTable(which, code) THEN code
               ELSE IF Len(code) = 5 /\ InTable(which, SubSeq(code, 3, 5))
               THEN SubSeq(code, 3, 5)
               ELSE None
    IN  IF /\ key # None
           /\ s \in {code, code \o Words.airport, code \o Words.seaport,
                     code \o <<SP, "p", "o", "r", "t">>}
        THEN IATA_COORDS(which)[key]
        ELSE NoCoords

\* C13: in src/stable/server.py every location string that stands for a
\* table entry resolves to that entry, and the resolution makes no external
\* provider call.
C13_TableFirst ==
    Located /\ impl = "stable"
        => \A i \in DOMAIN resolutions :
               LET entry == TableEntryFor(impl, resolutions[i].loc)
               IN  entry # NoCoords
                       => /\ resolutions[i].r = entry
                          /\ resolutions[i].external = <<>>

\* what the cache holds for a query that was made: a miss
Missed(q) ==
    /\ CacheIndex(query_cache, q) # 0
    /\ query_cache[CacheIndex(query_cache, q)].r = NoCoords

\* the tier of the chain an external query of a string belongs to:
\* 1 '<code> airport', 2 the entire string s, 3 its 6-digit postal code p6,
\* 4 its 5-digit or ZIP+4 code zip
Tier(s, p6, zip, q) ==
    IF q = s THEN 2
    ELSE IF q = p6 THEN 3
    ELSE IF q = zip THEN 4
    ELSE IF Len(q) > 8 /\ SubSeq(q, Len(q) - 7, Len(q)) = Words.airport THEN 1
    ELSE 0

\* the tiers of the external calls of the last _coords_for_location call
LastTiers ==
    LET s == Strip(LastResolution.loc)
        p6 == SearchPostal6(s)
        zip == SearchZip(s)
    IN  [i \in DOMAIN LastResolution.external |->
            Tier(s, p6, zip, LastResolution.external[i].q)]

\* the external calls of the last _coords_for_location call come in the
\* order of the chain and stop at the first hit: a later query is made only
\* when the earlier ones missed, the full text before the 6-digit code, the
\* 6-digit code before the ZIP code; a hit is the result; the result is None
\* exactly when the full text and the postal codes found in it all missed
ChainInOrder ==
    LET ext == LastResolution.external
        s == Strip(LastResolution.loc)
        p6 == SearchPostal6(s)
        zip == SearchZip(s)
        tier == LastTiers
        allmiss == /\ Missed(s)
                   /\ p6 = None \/ Missed(p6)
                   /\ zip = None \/ Missed(zip)
    IN  /\ \A i \in DOMAIN ext : tier[i] \in 1..4
        /\ \A i, j \in DOMAIN ext :
               i < j => /\ tier[i] <= tier[j]
                        /\ ext[i].q # ext[j].q => Missed(ext[i].q)
        /\ \A i \in DOMAIN ext :
               /\ tier[i] >= 3 => Missed(s)
               /\ tier[i] = 4 => p6 = None \/ Missed(p6)
        /\ (ext # <<>> /\ ~Missed(ext[Len(ext)].q))
               => LastResolution.r =
                      query_cache[CacheIndex(query_cache, ext[Len(ext)].q)].r
        /\ LastResolution.loc # <<>> => (LastResolution.r = NoCoords <=> allmiss)

\* the strings for which '<code> airport' is geocoded externally
CodeQueried == \E i \in DOMAIN LastTiers : LastTiers[i] = 1

HasFacilityKeyword(loc_str) == Contains(Lower(loc_str), <<"p", "o", "r", "t">>)

\* C14 as stated: the external queries of one call follow the chain order
\* and stop at the first hit, and '<code> airport' is geocoded only when
\* the string contains a facility keyword (airport, port, seaport).
C14_CodeQueryNeedsKeyword ==
    Located
        => /\ ChainInOrder
           /\ CodeQueried => HasFacilityKeyword(LastResolution.loc)

\* C14 amended: the external queries of one call follow the chain order and
\* stop at the first hit, and '<code> airport' is geocoded only when the
\* string contains a facility keyword or reads as a whole as a code: a
\* 5-character UN/LOCODE, or in src/stable/server.py 3 to 5 letters.
C14_CodeQueryNeedsKeywordOrCode ==
    Located
        => /\ ChainInOrder
           /\ CodeQueried
                  => \/ HasFacilityKeyword(LastResolution.loc)
                     \/ LET c == RemoveSpaces(Upper(Strip(LastResolution.loc)))
                        IN  \/ /\ Len(c) = 5
                               /\ IsAlpha(SubSeq(c, 1, 2))
                               /\ IsAlnum(SubSeq(c, 3, 5))
                            \/ /\ impl = "stable"
                               /\ Len(c) \in 3..5
                               /\ IsAlpha(c)

\* the full text missed, the 6-digit code missed, the ZIP code was found
C14_Witness ==
    /\ Located
    /\ SearchPostal6(LastResolution.loc) # None
    /\ Len(LastResolution.external) >= 5
    /\ LastTiers[Len(LastResolution.external)] = 4
    /\ LastResolution.r = "P1"

\* Nominatim returned coordinates for the query: they are what is cached
Answered(q) ==
    /\ CacheIndex(query_cache, q) # 0
    /\ query_cache[CacheIndex(query_cache, q)].r = "P1"

GoogleCalled(q) == \E j \in DOMAIN calls : calls[j] = [p |-> "google", q |-> q]

\* C15: in src/stable/server.py, for every external query Google is called
\* if and only if Nominatim raised or returned nothing; a Google call
\* follows the Nominatim call of the same query at once; when Nominatim
\* returns coordinates they are the result of the query and Google is not
\* called for it.
C15_GoogleOnlyAfterNominatimFailed ==
    impl = "stable" =>
    /\ \A i \in DOMAIN calls :
           /\ calls[i].p = "nominatim"
                  => (GoogleCalled(calls[i].q) <=> ~Answered(calls[i].q))
           /\ calls[i].p = "google"
                  => \E j \in 1..(i - 1) :
                         /\ calls[j] = [p |-> "nominatim", q |-> calls[i].q]
                         /\ \A k \in (j + 1)..(i - 1) : calls[k].p = "sleep"
    /\ Located /\ LastResolution.external # <<>>
           => LET last == LastResolution.external[Len(LastResolution.external)]
              IN  /\ Answered(last.q) => last.p = "nominatim"
                  /\ last.p = "nominatim" => LastResolution.r = "P1"

\* Nominatim raised and Google missed on one query, Nominatim answered the
\* next
C15_Witness ==
    /\ Located
    /\ impl = "stable"
    /\ Len(calls) = 4
    /\ calls[1].p = "nominatim"
    /\ calls[2].p = "google"
    /\ calls[3].p = "nominatim"
    /\ calls[4].p = "sleep"
    /\ calls[3].q # calls[1].q
    /\ LastResolution.r = "P1"

\* the entries of a cache that hold coordinates
Successes(cache) ==
    {cache[i] : i \in {k \in DOMAIN cache : cache[k].r # NoCoords}}

\* C16: the cache of _geocode_query is append-only: an entry holding
\* coordinates is never removed and never replaced by a later resolution.
C16_SuccessNeverEvicted ==
    [][Successes(query_cache) \subseteq Successes(query_cache')]_vars

\* the sectors of the shipments before shipment k
RECURSIVE SectorsBefore(_)
SectorsBefore(k) ==
    IF k = 1 THEN 0
    ELSE SectorsBefore(k - 1) + Len(shipments[k - 1].sectors)

\* the sectors parse_logistics_data builds for the k-th record of at least
\* six columns
ParsedSectors(k) ==
    LET rec == CHOOSE r \in SixColumnRecords :
                   Cardinality({x \in SixColumnRecords : x <= r}) = k
    IN  BuildSectors(impl, CsvFirstRow(cleaned_lines[rec]).fields)

\* the normalization substituted strings only
StringsOnly == \A loc \in DOMAIN mapping : mapping[loc] # None

\* every shipment and every sector is returned with the substituted
\* locations and with the distance its two resolutions give: 0 when an
\* endpoint is unresolved
AllNormalized ==
    LET total == SectorsBefore(Len(shipments) + 1)
    IN  /\ Len(resolutions) = 4 * total
        /\ \A k \in DOMAIN shipments :
               /\ Len(shipments[k].sectors) = Len(ParsedSectors(k))
               /\ \A i \in DOMAIN shipments[k].sectors :
                      LET s == shipments[k].sectors[i]
                          n == SectorsBefore(k) + i
                          a == resolutions[2 * total + 2 * n - 1]
                          b == resolutions[2 * total + 2 * n]
                      IN  /\ s.from = mapping[ParsedSectors(k)[i].from]
                          /\ s.to = mapping[ParsedSectors(k)[i].to]
                          /\ a.loc = s.from
                          /\ b.loc = s.to
                          /\ s.distance_km =
                                 IF a.r = NoCoords \/ b.r = NoCoords THEN 0
                                 ELSE geodesic(a.r, b.r)

C18_DelayBetweenCalls ==
    \A i \in 1..(Len(calls) - 1) :
        calls[i].p \in {"nominatim", "google"} => calls[i + 1].p = "sleep"

\* the two resolutions parse_logistics_data made for sector i of shipment k
EndpointsOf(k, i) ==
    <<resolutions[2 * (SectorsBefore(k) + i) - 1],
      resolutions[2 * (SectorsBefore(k) + i)]>>

\* C19: in the parse output a sector has distance_km None exactly when one
\* of its two endpoints failed resolution, so a leg with an unresolved
\* endpoint never carries the distance 0 of a resolved leg.
C19_UnresolvedIsNull ==
    pc = "parsed"
        => \A k \in DOMAIN shipments :
               \A i \in DOMAIN shipments[k].sectors :
                   (shipments[k].sectors[i].distance_km = NoDistance)
                       <=> (\E e \in {1, 2} : EndpointsOf(k, i)[e].r = NoCoords)

\* C20: get_emission_factor defaults. TRUCK with a subtype outside
\* {heavy_full, heavy_avg, medium, light}, None included, returns the
\* heavy_avg factor 0.08; SEA with a subtype outside {container,
\* bulk_carrier, tanker, general_cargo} returns the container factor 0.015;
\* a mode other than TRUCK, AIR and SEA, None included, returns 0.0; a
\* recognised subtype returns its own table value.
C20_Defaults ==
    returned # <<>>
        => /\ call.mode = "TRUCK"
                  => returned[1] =
                         CASE call.subtype = "heavy_full" -> 50
                           [] call.subtype = "heavy_avg" -> 80
                           [] call.subtype = "medium" -> 200
                           [] call.subtype = "light" -> 400
                           [] OTHER -> 80
           /\ call.mode = "SEA"
                  => returned[1] =
                         CASE call.subtype = "container" -> 15
                           [] call.subtype = "bulk_carrier" -> 10
                           [] call.subtype = "tanker" -> 12
                           [] call.subtype = "general_cargo" -> 20
                           [] OTHER -> 15
           /\ call.mode \notin {"TRUCK", "AIR", "SEA"} => returned[1] = 0

\* a TRUCK leg with subtype None got the heavy_avg factor
C20_Witness ==
    /\ returned = <<80>>
    /\ call.mode = "TRUCK"
    /\ call.subtype = "None"

\* the subtype selected for a sector's mode in the last /calculate request
SelectedSubtype(mode) ==
    CASE mode = "TRUCK" -> results.road_subtype
      [] mode = "AIR" -> results.air_subtype
      [] mode = "SEA" -> results.sea_subtype
      [] OTHER -> "default"

\* distance_km of a sector, None when the key is missing
DistanceKm(s) == IF "distance_km" \in DOMAIN s THEN s.distance_km ELSE NoDistance

\* weight x (distance_km or 0) x factor(mode, subtype, distance_km)
ExpectedEmissions(s) ==
    results.weight_100kg
        * (IF DistanceKm(s) = NoDistance THEN 0 ELSE DistanceKm(s))
        * get_emission_factor(s.mode, SelectedSubtype(s.mode), DistanceKm(s))

RECURSIVE ExpectedTotal(_)
ExpectedTotal(secs) ==
    IF secs = <<>> THEN 0
    ELSE ExpectedEmissions(secs[1]) + ExpectedTotal(Tail(secs))

\* C21: calculate_shipment_emissions raises nothing and returns, for every
\* sector in input order, the applied factor and emissions_kg = weight x
\* (distance_km or 0) x factor(mode, subtype of the mode, distance_km), and
\* total_emissions_kg = the sum of them; a sector with distance_km None or
\* missing contributes exactly 0.
C21_EmissionsFormula ==
    pc = "calculated"
        => /\ ~raised
           /\ Len(results.emission_results) = Len(shipments)
           /\ \A k \in DOMAIN shipments :
                  LET out == results.emission_results[k]
                      secs == shipments[k].sectors
                  IN  /\ Len(out.by_sector) = Len(secs)
                      /\ out.total_emissions_kg = ExpectedTotal(secs)
                      /\ \A i \in DOMAIN secs :
                             /\ out.by_sector[i].sector = secs[i]
                             /\ out.by_sector[i].emission_factor =
                                    get_emission_factor(secs[i].mode,
                                        SelectedSubtype(secs[i].mode),
                                        DistanceKm(secs[i]))
                             /\ out.by_sector[i].emissions_kg =
                                    ExpectedEmissions(secs[i])
                             /\ DistanceKm(secs[i]) = NoDistance
                                    => out.by_sector[i].emissions_kg = 0

\* an AIR sector without distance_km and a TRUCK sector of 4611.8 km,
\* calculated for 1000 kg with the light road subtype: 1 x 4611.8 x 0.40
C21_Witness ==
    /\ pc = "calculated"
    /\ results.weight_100kg = 10
    /\ results.road_subtype = "light"
    /\ shipments[1].sectors = <<[mode |-> "AIR"],
                                [mode |-> "TRUCK", distance_km |-> 46118]>>
    /\ results.emission_results[1].by_sector[1].emissions_kg = 0
    /\ results.emission_results[1].total_emissions_kg = 10 * 46118 * 400

\* C22: calculate_shipment_emissions is pure. A /calculate call leaves the
\* shipments, their sectors and distances, the geocoding caches and the
\* provider call log as they were, and its result, after any calls before
\* it, is that of a fresh call with the same selections.
C22_Pure ==
    [][pc' = "calculated"
          => /\ shipments' = shipments
             /\ query_cache' = query_cache
             /\ google_cache' = google_cache
             /\ calls' = calls
             /\ resolutions' = resolutions
             /\ results'.emission_results =
                    [k \in 1..Len(shipments) |->
                        calculate_shipment_emissions(shipments[k],
                            results'.weight_100kg, results'.road_subtype,
                            results'.air_subtype, results'.sea_subtype)]]_vars

\* parsed shipments whose resolution filled the cache, calculated with
\* selections other than the defaults
C22_Witness ==
    /\ pc = "calculated"
    /\ query_cache # <<>>
    /\ \E i \in DOMAIN resolutions : resolutions[i].external # <<>>
    /\ results.weight_100kg = 10
    /\ results.road_subtype = "light"
    /\ results.air_subtype = "freighter"
    /\ results.emission_results[1].total_emissions_kg > 0

\* the empty result with its metadata: an error, no shipment and notes
IsEmptyResult(r) ==
    /\ DOMAIN r = {"error", "parsed_shipments", "notes"}
    /\ r.parsed_shipments = <<>>

\* the reference of the k-th record of at least six columns
ParsedReference(k) ==
    LET rec == CHOOSE r \in SixColumnRecords :
                   Cardinality({x \in SixColumnRecords : x <= r}) = k
    IN  CsvFirstRow(cleaned_lines[rec]).fields[2]

\* the answer of /extract in a state where it has answered
ExtractAnswered ==
    /\ IsEmptyResult(response[1]) <=> SixColumnRecords = {}
    /\ IsEmptyResult(response[1]) => llm_calls = <<>>
    /\ Len(response[1].parsed_shipments) = Cardinality(SixColumnRecords)
    /\ \A k \in DOMAIN response[1].parsed_shipments :
           response[1].parsed_shipments[k].ref_no = ParsedReference(k)

\* C23: /extract answers every request; the answer is the empty result (an
\* error, an empty parsed_shipments list, notes) exactly when the parse
\* yields no shipment, and then no LLM call was made; when a shipment
\* parses, parsed_shipments carries every parsed shipment whatever the LLM
\* answered.
C23_EmptyResultIffNothingParsed ==
    /\ pc # "raised"
    /\ pc = "responded" => ExtractAnswered

\* the physical lines that are not dropped as headers, those of them that
\* start with '<integer><tab>', and those that open a logical record: the
\* record starts, and the first line when it is a continuation line
NonHeaderLines == {i \in DOMAIN lines : ~IsHeaderLine(lines[i])}
RecordStarts == {i \in NonHeaderLines : IsRecordStart(lines[i])}
Openers ==
    RecordStarts \cup {i \in NonHeaderLines : \A j \in NonHeaderLines : i <= j}

\* the continuation lines from line i up to the next opener, each appended
\* with a single space
RECURSIVE Continuations(_)
Continuations(i) ==
    IF i > Len(lines) \/ i \in Openers THEN <<>>
    ELSE IF IsHeaderLine(lines[i]) THEN Continuations(i + 1)
    ELSE <<SP>> \o Strip(lines[i]) \o Continuations(i + 1)

\* the logical record the opener at line i gets; the first line of the
\* manifest is itself appended to the empty record
FoldedFrom(i) ==
    (IF \E j \in Openers : j < i THEN lines[i] ELSE <<SP>> \o Strip(lines[i]))
        \o Continuations(i + 1)

\* C24: after the folding, the logical records are, in order, those opened
\* by the lines starting with '<integer><tab>' (and by the first line when
\* the manifest begins with a continuation line); every other non-header
\* line is appended with a single space to the record opened before it and
\* opens no record of its own.
C24_FoldedRecords ==
    pc \notin {"start", "fold"}
        => /\ Len(cleaned_lines) = Cardinality(Openers)
           /\ Cardinality(Openers) = Cardinality(RecordStarts)
                  + (IF NonHeaderLines # {} /\ RecordStarts # Openers
                     THEN 1 ELSE 0)
           /\ \A i \in Openers :
                  cleaned_lines[Cardinality({j \in Openers : j <= i})]
                      = FoldedFrom(i)

\* a manifest that begins with a continuation line, then a record and its
\* continuation line: two logical records
C24_Witness ==
    /\ pc = "parsed"
    /\ Len(lines) = 3
    /\ ~IsRecordStart(lines[1])
    /\ IsRecordStart(lines[2])
    /\ lines[3] = <<"L", "e", "v", "e", "l", SP, "2">>
    /\ Len(cleaned_lines) = 2
    /\ cleaned_lines[2] = lines[2] \o <<SP>> \o lines[3]

\* the calls made to a provider for the query of the two requests
ProviderCalls(p) == {i \in DOMAIN calls : calls[i].p = p /\ calls[i].q = text}

\* C25: two requests that resolve the same uncached location at once both
\* obtain the same coordinates, the cache ends with a single entry for the
\* query, and each provider is called at most once for it.
C25_CalledOnce ==
    pc = "threads" /\ (\A t \in Threads : threads[t].at = "done")
        => /\ threads[1].r = threads[2].r
           /\ Cardinality({i \in DOMAIN query_cache :
                              query_cache[i].q = text}) = 1
           /\ Cardinality(ProviderCalls("nominatim")) <= 1
           /\ Cardinality(ProviderCalls("google")) <= 1

\* the physical lines of the manifest as posted, and the data records of
\* them: the lines that start with '<integer><tab>' and have at least six
\* tab-separated columns
PhysicalLines == SplitOn(text, NL)
DataRecords ==
    {i \in DOMAIN PhysicalLines :
        /\ IsRecordStart(PhysicalLines[i])
        /\ Len(SplitOn(PhysicalLines[i], TAB)) >= 6}

\* the delivery address written in the k-th data record, without its quotes
DeliveryWritten(k) ==
    LET rec == CHOOSE r \in DataRecords :
                   Cardinality({x \in DataRecords : x <= r}) = k
        col == SplitOn(PhysicalLines[rec], TAB)[6]
    IN  IF col # <<>> /\ Head(col) = DQ
        THEN SubSeq(col, 2, Len(col) - 1) ELSE col

\* C26: every data record yields exactly one shipment, in input order,
\* whatever its position in the manifest, the other lines and the text of
\* its fields: the shipments are as many as the data records and the k-th
\* shipment is that of the k-th data record.
C26_OneShipmentPerRecord ==
    pc = "parsed"
        => /\ Len(shipments) = Cardinality(DataRecords)
           /\ \A k \in DOMAIN shipments :
                  k <= Cardinality(DataRecords)
                      => StartsWith(shipments[k].delivery_to, DeliveryWritten(k))

\* C27: only successful lookups are memoized. Neither cache holds an entry
\* without coordinates, and a location that was looked up at the providers
\* and stayed unresolved is looked up at the providers again when it is
\* resolved later.
C27_MissesNotMemoized ==
    /\ \A i \in DOMAIN query_cache : query_cache[i].r # NoCoords
    /\ \A i \in DOMAIN google_cache : google_cache[i].r # NoCoords
    /\ \A i \in DOMAIN resolutions :
           \A j \in DOMAIN resolutions :
               /\ i < j
               /\ resolutions[i].loc = resolutions[j].loc
               /\ resolutions[i].r = NoCoords
               /\ resolutions[i].external # <<>>
               => resolutions[j].external # <<>>

\* C28: for mode AIR every subtype other than the exact string 'freighter'
\* (None, 'Freighter' and unrecognised values included) is belly: the
\* factor is belly_short 0.98 up to 1500 km, a None distance included, and
\* belly_long 0.77 above; it is never 0.0.
C28_AirDefaultsToBelly ==
    returned # <<>> /\ call.mode = "AIR"
        => /\ returned[1] # 0
           /\ call.subtype # "freighter"
                  => returned[1] =
                         IF call.distance_km = NoDistance
                                \/ call.distance_km <= 15000
                         THEN 980 ELSE 770

\* AIR legs with the subtypes 'Freighter' and None got the belly factors
C28_Witness ==
    /\ call.mode = "AIR"
    /\ \/ call.subtype = "Freighter" /\ call.distance_km = 15001
             /\ returned = <<770>>
       \/ call.subtype = "None" /\ call.distance_km = 15000
             /\ returned = <<980>>

\* what parse_logistics_data makes of a manifest text: the reference and the
\* delivery_to of every logical record of at least six columns, in order
FoldedRecordsOf(t) ==
    LET ls == SplitLines(t)
        RECURSIVE FoldFrom(_, _)
        FoldFrom(k, acc) ==
            IF k > Len(ls)
            THEN IF acc.cur # <<>> THEN Append(acc.cleaned, acc.cur)
                 ELSE acc.cleaned
            ELSE FoldFrom(k + 1, FoldStep(acc.cur, acc.cleaned, ls[k]))
    IN  FoldFrom(1, [cur |-> <<>>, cleaned |-> <<>>])
ReferencesAndDeliveries(recs) ==
    LET rows == [k \in DOMAIN recs |-> CsvFirstRow(recs[k])]
        kept == SelectSeq(rows, LAMBDA row :
                    row.exc = "" /\ ~TooFewColumns(row.fields))
    IN  [k \in DOMAIN kept |->
            [ref_no |-> Strip(kept[k].fields[2]),
             delivery_to |-> Strip(kept[k].fields[6])]]
ParsedOriginal == ReferencesAndDeliveries(FoldedRecordsOf(call.user_input))

\* C29: the preprocessing of the textarea preserves the logical records:
\* the shipments parsed from the preprocessed text are as many as those
\* parsed from the text of the textarea, with the same references and the
\* same delivery_to values.
C29_PreprocessingPreservesRecords ==
    (pc = "parsed" /\ call # <<>>)
        => /\ Len(shipments) = Len(ParsedOriginal)
           /\ \A k \in DOMAIN shipments :
                  k <= Len(ParsedOriginal)
                      => /\ shipments[k].ref_no = ParsedOriginal[k].ref_no
                         /\ shipments[k].delivery_to
                                = ParsedOriginal[k].delivery_to

\* the block a returned segment was built from, by its flight number
BlockOf(seg) ==
    CHOOSE k \in 1..Len(SECTOR_BLOCKS) :
        call.blocks[k].flight_number = seg.flight_number
Unfilled(cell) == cell \in {<<>>, None, NaN}

\* C30: _collect_sector_segments keeps a block only when both its from and
\* its to cell are filled: a block whose from or to cell is empty, None or
\* NaN gives no segment, and the segments are in block order.
C30_BothEndsFilled ==
    (pc = "read" /\ returned # <<>>)
        => LET segs == returned[1].segments
           IN  /\ \A i \in DOMAIN segs :
                      /\ ~Unfilled(call.blocks[BlockOf(segs[i])].from)
                      /\ ~Unfilled(call.blocks[BlockOf(segs[i])].to)
               /\ \A i, j \in DOMAIN segs :
                      i < j => BlockOf(segs[i]) < BlockOf(segs[j])

=============================================================================
